---------------------------- MODULE Spec2Model ----------------------------
(***************************************************************************)
(* A model of sql2csv: the SQL dump parser (ParseToSQLite and its helpers),*)
(* the table exporter (Export), the export orchestrator (main) and the     *)
(* database helpers (Connect, GetTables, GetColumns).                      *)
(*                                                                         *)
(* Text is modelled by TLA+ strings, on which Len, SubSeq and \o act as    *)
(* they do on sequences; the Go string functions the code calls are        *)
(* defined on them below.                                                  *)
(***************************************************************************)
EXTENDS Integers, Sequences, FiniteSets, TLC

(***************************************************************************)
(* Bounds of the model.                                                    *)
(***************************************************************************)
\* The longest dump drawn from the general alphabet of lines.
MaxLines == 3
\* The most data rows in a bulk-load scenario.
MaxCopyRows == 2
\* The most rows of an exported table.
MaxRows == 3
\* The most calls of the database helpers in one run.
MaxCalls == 3
\* The most tables selected for export in one run of main.
MaxTables == 2

(***************************************************************************)
(* v := e in Go: e is evaluated once and the body F works on its value.    *)
(***************************************************************************)
Let(e, F(_)) == CHOOSE r \in {F(v) : v \in {e}} : TRUE

\* The least i in lo..hi with P(i); one exists wherever this is used.
First(lo, hi, P(_)) == CHOOSE i \in lo..hi : P(i) /\ \A j \in lo..(i - 1) : ~P(j)

(***************************************************************************)
(* Go's strings package, as far as the code uses it.  Indexes are 1-based; *)
(* 0 stands for Go's -1 ("not found").                                     *)
(***************************************************************************)
CharAt(s, i) == SubSeq(s, i, i)

IsSpace(c) == c \in {" ", "\t", "\r", "\n"}

MinOf(S0) == Let(S0, LAMBDA S : CHOOSE x \in S : \A y \in S : x <= y)

MaxOf(S0) == Let(S0, LAMBDA S : CHOOSE x \in S : \A y \in S : x >= y)

MatchAt(s, p, i) == i >= 1 /\ i + Len(p) - 1 <= Len(s) /\ SubSeq(s, i, i + Len(p) - 1) = p

HasPrefix(s0, p) == Let(s0, LAMBDA s : MatchAt(s, p, 1))

HasSuffix(s0, p) == Let(s0, LAMBDA s : Len(s) >= Len(p) /\ MatchAt(s, p, Len(s) - Len(p) + 1))

Occurrences(s0, p) == Let(s0, LAMBDA s : {i \in 1..(Len(s) - Len(p) + 1) : MatchAt(s, p, i)})

Contains(s0, p) == Let(s0, LAMBDA s : \E i \in 1..(Len(s) - Len(p) + 1) : MatchAt(s, p, i))

Index(s, p) == Let(Occurrences(s, p), LAMBDA occ : IF occ = {} THEN 0 ELSE MinOf(occ))

LastIndex(s, p) == Let(Occurrences(s, p), LAMBDA occ : IF occ = {} THEN 0 ELSE MaxOf(occ))

\* The first occurrence of p in s at or after position from, 0 when there is none.
IndexFrom(s0, p, from) ==
    Let(s0, LAMBDA s :
        Let({i \in from..(Len(s) - Len(p) + 1) : MatchAt(s, p, i)},
            LAMBDA occ : IF occ = {} THEN 0 ELSE MinOf(occ)))

TrimSpace(s0) ==
    Let(s0, LAMBDA s :
        Let(First(1, Len(s) + 1, LAMBDA i : i > Len(s) \/ ~IsSpace(CharAt(s, i))),
            LAMBDA first :
                IF first > Len(s) THEN ""
                ELSE SubSeq(s, first,
                            Len(s) - First(0, Len(s), LAMBDA k : ~IsSpace(CharAt(s, Len(s) - k))))))

TrimPrefix(s0, p) ==
    Let(s0, LAMBDA s : IF MatchAt(s, p, 1) THEN SubSeq(s, Len(p) + 1, Len(s)) ELSE s)

RECURSIVE ReplaceAll(_, _, _)
ReplaceAll(s0, old, new) ==
    Let(s0, LAMBDA s :
        Let(Index(s, old), LAMBDA i :
            IF i = 0 THEN s
            ELSE SubSeq(s, 1, i - 1) \o new
                 \o ReplaceAll(SubSeq(s, i + Len(old), Len(s)), old, new)))

\* strings.Split(s, sep) for a non-empty separator.
RECURSIVE Split(_, _)
Split(s0, sep) ==
    Let(s0, LAMBDA s :
        Let(Index(s, sep), LAMBDA i :
            IF i = 0 THEN <<s>>
            ELSE <<SubSeq(s, 1, i - 1)>> \o Split(SubSeq(s, i + Len(sep), Len(s)), sep)))

\* strings.Fields(s): the maximal runs of non-space characters.
RECURSIVE Fields(_)
Fields(s0) ==
    Let(TrimSpace(s0), LAMBDA t :
        IF t = "" THEN <<>>
        ELSE Let(First(1, Len(t) + 1, LAMBDA i : i > Len(t) \/ IsSpace(CharAt(t, i))),
                 LAMBDA e :
                     IF e > Len(t) THEN <<t>>
                     ELSE <<SubSeq(t, 1, e - 1)>> \o Fields(SubSeq(t, e + 1, Len(t)))))

RECURSIVE JoinFrom(_, _, _)
JoinFrom(parts, sep, k0) ==
    Let(k0, LAMBDA k :
        IF k > Len(parts) THEN ""
        ELSE IF k = Len(parts) THEN parts[k]
        ELSE parts[k] \o sep \o JoinFrom(parts, sep, k + 1))

Join(parts0, sep) == Let(parts0, LAMBDA parts : JoinFrom(parts, sep, 1))

(***************************************************************************)
(* Character classes of Go's regexp syntax: \d, \w and (?i).               *)
(***************************************************************************)
UpperLetters == "ABCDEFGHIJKLMNOPQRSTUVWXYZ"

LowerLetters == "abcdefghijklmnopqrstuvwxyz"

Digits == "0123456789"

DigitChars == {CharAt(Digits, i) : i \in 1..Len(Digits)}

WordChars ==
    {CharAt(UpperLetters, i) : i \in 1..Len(UpperLetters)}
    \cup {CharAt(LowerLetters, i) : i \in 1..Len(LowerLetters)}
    \cup DigitChars \cup {"_"}

IsDigit(c) == c \in DigitChars

IsWordChar(c) == c \in WordChars

LowerMap == [i \in 1..Len(UpperLetters) |-> <<CharAt(UpperLetters, i), CharAt(LowerLetters, i)>>]

LowerChar(c) ==
    IF \E i \in DOMAIN LowerMap : LowerMap[i][1] = c
    THEN LowerMap[CHOOSE i \in DOMAIN LowerMap : LowerMap[i][1] = c][2]
    ELSE c

\* Computed by halves, which keeps the depth of the recursion logarithmic.
RECURSIVE ToLower(_)
ToLower(s0) ==
    Let(s0, LAMBDA s :
        IF Len(s) = 0 THEN ""
        ELSE IF Len(s) = 1 THEN LowerChar(s)
        ELSE Let(Len(s) \div 2, LAMBDA h :
                 ToLower(SubSeq(s, 1, h)) \o ToLower(SubSeq(s, h + 1, Len(s)))))

\* The end of the maximal run of characters of class \w (resp. \d) starting at i:
\* the index of the first character after the run.
WordEnd(s, i) == First(i, Len(s) + 1, LAMBDA j : j > Len(s) \/ ~IsWordChar(CharAt(s, j)))

DigitsEnd(s, i) == First(i, Len(s) + 1, LAMBDA j : j > Len(s) \/ ~IsDigit(CharAt(s, j)))

(***************************************************************************)
(* convertDataTypes: the conversion table and its rules.  Each rule is the *)
(* regular expression (?i)<name>(\(\d+\))? replaced everywhere by the      *)
(* target type.  The code ranges over a Go map, whose iteration order is   *)
(* unspecified: the order of the rules is an input of the conversion.      *)
(***************************************************************************)
Conversions ==
    << [pg |-> "SERIAL", sqlite |-> "INTEGER"],
       [pg |-> "serial", sqlite |-> "INTEGER"],
       [pg |-> "BIGSERIAL", sqlite |-> "INTEGER"],
       [pg |-> "bigserial", sqlite |-> "INTEGER"],
       [pg |-> "SMALLSERIAL", sqlite |-> "INTEGER"],
       [pg |-> "smallserial", sqlite |-> "INTEGER"],
       [pg |-> "timestamp without time zone", sqlite |-> "DATETIME"],
       [pg |-> "timestamp with time zone", sqlite |-> "DATETIME"],
       [pg |-> "boolean", sqlite |-> "BOOLEAN"],
       [pg |-> "BOOLEAN", sqlite |-> "BOOLEAN"],
       [pg |-> "character varying", sqlite |-> "VARCHAR"],
       [pg |-> "varchar", sqlite |-> "VARCHAR"],
       [pg |-> "bytea", sqlite |-> "BLOB"],
       [pg |-> "double precision", sqlite |-> "REAL"],
       [pg |-> "bigint", sqlite |-> "INTEGER"],
       [pg |-> "int8", sqlite |-> "INTEGER"],
       [pg |-> "smallint", sqlite |-> "INTEGER"],
       [pg |-> "int2", sqlite |-> "INTEGER"],
       [pg |-> "integer", sqlite |-> "INTEGER"],
       [pg |-> "int4", sqlite |-> "INTEGER"],
       [pg |-> "decimal", sqlite |-> "REAL"],
       [pg |-> "numeric", sqlite |-> "REAL"],
       [pg |-> "text", sqlite |-> "TEXT"],
       [pg |-> "json", sqlite |-> "TEXT"],
       [pg |-> "jsonb", sqlite |-> "TEXT"],
       [pg |-> "date", sqlite |-> "DATE"] >>

\* The orders of the rules the model draws from: the table's order and its reverse.
SourceOrder == [i \in 1..Len(Conversions) |-> i]

ReverseOrder == [i \in 1..Len(Conversions) |-> Len(Conversions) + 1 - i]

RuleOrders == {SourceOrder, ReverseOrder}

\* The names of the rules as (?i) compares them: in lower case.
FoldedNames == [k \in 1..Len(Conversions) |-> ToLower(Conversions[k].pg)]

\* The end of the match of <name>(\(\d+\))? whose name starts at i: the index of
\* the first character after the name and its optional (digits) suffix.
RuleMatchEnd(line, pgl, i) ==
    LET j == i + Len(pgl)
        d == DigitsEnd(line, j + 1)
        suffix == /\ j <= Len(line)
                  /\ CharAt(line, j) = "("
                  /\ d > j + 1
                  /\ d <= Len(line)
                  /\ CharAt(line, d) = ")"
    IN IF suffix THEN d + 1 ELSE j

\* re.ReplaceAllString for one rule, from position from on: the leftmost match at
\* or after from is replaced, and the search goes on after it.  lower is the line
\* in lower case, pgl the rule's name in lower case.
RECURSIVE ReplaceRuleFrom(_, _, _, _, _)
ReplaceRuleFrom(line, lower, pgl, sqlite, from0) ==
    Let(from0, LAMBDA from :
        Let(IndexFrom(lower, pgl, from), LAMBDA i :
            IF i = 0 THEN SubSeq(line, from, Len(line))
            ELSE SubSeq(line, from, i - 1) \o sqlite
                 \o ReplaceRuleFrom(line, lower, pgl, sqlite, RuleMatchEnd(line, pgl, i))))

\* Rule k of the table applied to a line, which comes with its lower-case form and
\* leaves with it.
ReplaceRule(st0, k) ==
    Let(st0, LAMBDA st :
        IF IndexFrom(st.lower, FoldedNames[k], 1) = 0 THEN st
        ELSE Let(ReplaceRuleFrom(st.line, st.lower, FoldedNames[k], Conversions[k].sqlite, 1),
                 LAMBDA out : [line |-> out, lower |-> ToLower(out)]))

\* The rules order[lo..hi], one after the other.  (By halves, which keeps the depth
\* of the recursion logarithmic.)
RECURSIVE ApplyRules(_, _, _, _)
ApplyRules(st0, order, lo0, hi0) ==
    Let(st0, LAMBDA st :
    Let(lo0, LAMBDA lo :
    Let(hi0, LAMBDA hi :
        IF lo > hi THEN st
        ELSE IF lo = hi THEN ReplaceRule(st, order[lo])
        ELSE ApplyRules(ApplyRules(st, order, lo, (lo + hi) \div 2),
                        order, (lo + hi) \div 2 + 1, hi))))

convertDataTypes(line0, order) ==
    Let(line0, LAMBDA line :
        ApplyRules([line |-> line, lower |-> ToLower(line)], order, 1, Len(order)).line)

convertCreateTable(line, order) == convertDataTypes(ReplaceAll(line, "public.", ""), order)

cleanupCreateTable(line0) ==
    Let(line0, LAMBDA line :
        Let(LastIndex(line, ","), LAMBDA idx :
            IF idx # 0 /\ Contains(SubSeq(line, idx, Len(line)), ")")
            THEN SubSeq(line, 1, idx - 1) \o SubSeq(line, idx + 1, Len(line))
            ELSE line))

(***************************************************************************)
(* convertConstraint and the three regular expressions it matches.         *)
(***************************************************************************)
NoMatch == [ok |-> FALSE, name |-> "", cols |-> "", ref |-> ""]

\* ADD CONSTRAINT (\w+) <kw> \((.*?)\): the leftmost match.
MatchAddConstraint(line, kw) ==
    LET head == "ADD CONSTRAINT "
        open == " " \o kw \o " ("
        fits(i) == Let(WordEnd(line, i + Len(head)), LAMBDA w :
                       /\ w > i + Len(head)
                       /\ MatchAt(line, open, w)
                       /\ IndexFrom(line, ")", w + Len(open)) # 0)
    IN Let({i \in Occurrences(line, head) : fits(i)}, LAMBDA cands :
           IF cands = {} THEN NoMatch
           ELSE Let(MinOf(cands), LAMBDA i :
                    Let(WordEnd(line, i + Len(head)), LAMBDA w :
                        [ok |-> TRUE,
                         name |-> SubSeq(line, i + Len(head), w - 1),
                         cols |-> SubSeq(line, w + Len(open),
                                         IndexFrom(line, ")", w + Len(open)) - 1),
                         ref |-> ""])))

\* FOREIGN KEY \((.*?)\) REFERENCES (\w+)\((.*?)\): the leftmost match.
MatchForeignKey(line) ==
    LET head == "FOREIGN KEY ("
        mid == ") REFERENCES "
        closes(i) == {k \in Occurrences(line, mid) :
                         /\ k >= i + Len(head)
                         /\ Let(WordEnd(line, k + Len(mid)), LAMBDA w :
                                /\ w > k + Len(mid)
                                /\ MatchAt(line, "(", w)
                                /\ IndexFrom(line, ")", w + 1) # 0)}
    IN Let({i \in Occurrences(line, head) : closes(i) # {}}, LAMBDA cands :
           IF cands = {} THEN NoMatch
           ELSE Let(MinOf(cands), LAMBDA i :
                    Let(MinOf(closes(i)), LAMBDA k :
                        [ok |-> TRUE,
                         name |-> "",
                         cols |-> SubSeq(line, i + Len(head), k - 1),
                         ref |-> SubSeq(line, k + Len(mid), WordEnd(line, k + Len(mid)) - 1)])))

\* The second field of the line, which is the word TABLE of ALTER TABLE.
ConstraintTableSecondField(line) == Fields(line)[2]

\* strings.Fields(line)[2] (indexed from 0): the third field of the line, the
\* table name of an ALTER TABLE statement.
ConstraintTable(line) == Fields(line)[3]

convertConstraint(line0) ==
    Let(line0, LAMBDA line :
        LET pk == MatchAddConstraint(line, "PRIMARY KEY")
            fk == MatchForeignKey(line)
            uq == MatchAddConstraint(line, "UNIQUE")
            tableName == ConstraintTable(line)
        IN IF Contains(line, "PRIMARY KEY") /\ pk.ok
           THEN "CREATE UNIQUE INDEX IF NOT EXISTS pk_" \o tableName \o " ON " \o tableName
                \o " (" \o pk.cols \o ");"
           ELSE IF Contains(line, "FOREIGN KEY") /\ fk.ok
           THEN "CREATE INDEX IF NOT EXISTS fk_" \o tableName \o "_" \o fk.ref \o " ON "
                \o tableName \o " (" \o fk.cols \o ");"
           ELSE IF Contains(line, "UNIQUE") /\ uq.ok
           THEN "CREATE UNIQUE INDEX IF NOT EXISTS " \o uq.name \o " ON " \o tableName
                \o " (" \o uq.cols \o ");"
           ELSE "")

convertSyntax(line0) ==
    Let(line0, LAMBDA line :
        IF \/ Contains(line, "CREATE SEQUENCE")
           \/ Contains(line, "ALTER SEQUENCE")
           \/ Contains(line, "START WITH")
           \/ Contains(line, "SEQUENCE NAME")
        THEN ""
        ELSE IF Contains(line, "OWNER TO") THEN ""
        ELSE IF Contains(line, "pg_catalog.") THEN ""
        ELSE IF Contains(line, "ADD CONSTRAINT") THEN convertConstraint(line)
        ELSE line)

(***************************************************************************)
(* shouldSkipStatement: the skip patterns, in the code's order.  A pattern *)
(* is anchored at the start (^...), a substring, or a.*b.                  *)
(***************************************************************************)
\* a.*b: an occurrence of a followed, after it, by an occurrence of b.
MatchThen(stmt, a, b) ==
    Let(Index(stmt, a), LAMBDA i : i # 0 /\ IndexFrom(stmt, b, i + Len(a)) # 0)

shouldSkipStatement(stmt0) ==
    Let(stmt0, LAMBDA stmt :
        \/ HasPrefix(stmt, "SET ")
        \/ HasPrefix(stmt, "ALTER DATABASE")
        \/ HasPrefix(stmt, "CREATE DATABASE")
        \/ HasPrefix(stmt, "CREATE SCHEMA")
        \/ HasPrefix(stmt, "CREATE EXTENSION")
        \/ HasPrefix(stmt, "COMMENT ON")
        \/ HasPrefix(stmt, "GRANT ")
        \/ HasPrefix(stmt, "REVOKE ")
        \/ Contains(stmt, "CREATE TRIGGER")
        \/ Contains(stmt, "CREATE RULE")
        \/ Contains(stmt, "CREATE POLICY")
        \/ Contains(stmt, "SELECT pg_catalog")
        \/ MatchThen(stmt, "ALTER TABLE", "OWNER TO")
        \/ MatchThen(stmt, "ALTER TABLE", "ADD GENERATED"))

(***************************************************************************)
(* Values of the staging store and of result sets: Go's interface{} as a   *)
(* tagged record.  k is the dynamic type, s the text of a string or byte   *)
(* value, n the number of an integer value, b the truth of a boolean.      *)
(***************************************************************************)
NilValue == [k |-> "nil", s |-> "", n |-> 0, b |-> FALSE]

StringValue(str) == [k |-> "string", s |-> str, n |-> 0, b |-> FALSE]

BytesValue(str) == [k |-> "bytes", s |-> str, n |-> 0, b |-> FALSE]

IntValue(i) == [k |-> "int", s |-> "", n |-> i, b |-> FALSE]

BoolValue(t) == [k |-> "bool", s |-> "", n |-> 0, b |-> t]

parseCopyField(field) ==
    IF field = "\\N" THEN NilValue
    ELSE IF field = "t" THEN BoolValue(TRUE)
    ELSE IF field = "f" THEN BoolValue(FALSE)
    ELSE StringValue(field)

parseCopyLine(line) ==
    Let(Split(line, "\t"), LAMBDA fields :
        [i \in 1..Len(fields) |-> parseCopyField(fields[i])])

(***************************************************************************)
(* The staging store: SQLite behind db.Exec, as far as the dumps of the    *)
(* model go.  A store is its tables, in creation order, and their rows, in *)
(* insertion order.  Exec runs the statements of its text one after the    *)
(* other and stops at the first that fails; what ran before stays.         *)
(***************************************************************************)
EmptyStore == [tables |-> <<>>, rows |-> <<>>]

\* Keywords that cannot stand as a table, column or type name.
SqlKeywords ==
    {"CREATE", "TABLE", "INDEX", "PRIMARY", "NOT", "NULL", "UNIQUE", "DEFAULT", "CHECK",
     "REFERENCES", "AUTOINCREMENT", "CONSTRAINT", "INSERT", "INTO", "VALUES", "SELECT",
     "FROM", "WHERE", "SET", "ON", "ALTER", "ADD"}

SqlTokens(stmt) ==
    Fields(ReplaceAll(ReplaceAll(ReplaceAll(ReplaceAll(stmt, "(", " ( "), ")", " ) "),
                                 ",", " , "), ";", " ; "))

IsIdent(t0) ==
    Let(t0, LAMBDA t :
        /\ Len(t) > 0
        /\ t \notin SqlKeywords
        /\ \A i \in 1..Len(t) : IsWordChar(CharAt(t, i))
        /\ ~IsDigit(CharAt(t, 1)))

IsNumber(t0) == Let(t0, LAMBDA t : Len(t) > 0 /\ \A i \in 1..Len(t) : IsDigit(CharAt(t, i)))

\* The elements of a finite set of integers, in increasing order.
RECURSIVE SortedSeq(_)
SortedSeq(S0) ==
    Let(S0, LAMBDA S :
        IF S = {} THEN <<>>
        ELSE Let(MinOf(S), LAMBDA m : <<m>> \o SortedSeq(S \ {m})))

\* The pieces of toks between the positions cuts (each position holds a separator).
Pieces(toks0, cuts) ==
    Let(toks0, LAMBDA toks :
        Let(SortedSeq(cuts), LAMBDA c :
            [k \in 1..(Len(c) + 1) |->
                SubSeq(toks,
                       IF k = 1 THEN 1 ELSE c[k - 1] + 1,
                       IF k > Len(c) THEN Len(toks) ELSE c[k] - 1)]))

\* The nesting depth of parentheses after token i.
ParenDepth(toks, i) ==
    Cardinality({j \in 1..i : toks[j] = "("}) - Cardinality({j \in 1..i : toks[j] = ")"})

\* ( number ) or ( number , number ) from position p; the position after it, 0 when
\* what is there is neither.
TypeArgsEnd(item, p) ==
    IF p + 2 <= Len(item) /\ IsNumber(item[p + 1]) /\ item[p + 2] = ")" THEN p + 3
    ELSE IF /\ p + 4 <= Len(item)
            /\ IsNumber(item[p + 1])
            /\ item[p + 2] = ","
            /\ IsNumber(item[p + 3])
            /\ item[p + 4] = ")"
    THEN p + 5
    ELSE 0

RECURSIVE ColumnConstraintsOk(_, _)
ColumnConstraintsOk(item, q0) ==
    Let(q0, LAMBDA q :
        IF q > Len(item) THEN TRUE
        ELSE IF item[q] = "PRIMARY" /\ q + 1 <= Len(item) /\ item[q + 1] = "KEY"
        THEN IF q + 2 <= Len(item) /\ item[q + 2] = "AUTOINCREMENT"
             THEN ColumnConstraintsOk(item, q + 3)
             ELSE ColumnConstraintsOk(item, q + 2)
        ELSE IF item[q] = "NOT" /\ q + 1 <= Len(item) /\ item[q + 1] = "NULL"
        THEN ColumnConstraintsOk(item, q + 2)
        ELSE IF item[q] \in {"UNIQUE", "NULL"} THEN ColumnConstraintsOk(item, q + 1)
        ELSE FALSE)

\* column-def: name, type words, optional ( n ) or ( n , m ), column constraints.
ColumnDefOk(item0) ==
    Let(item0, LAMBDA item :
        /\ Len(item) >= 1
        /\ IsIdent(item[1])
        /\ Let(First(2, Len(item) + 1, LAMBDA j : j > Len(item) \/ ~IsIdent(item[j])),
               LAMBDA p :
                   Let(IF p <= Len(item) /\ item[p] = "(" THEN TypeArgsEnd(item, p) ELSE p,
                       LAMBDA q : q # 0 /\ ColumnConstraintsOk(item, q))))

\* table-constraint: PRIMARY KEY ( names ) or UNIQUE ( names ).
TableConstraintOk(item0) ==
    Let(item0, LAMBDA item :
        Let(IF Len(item) >= 2 /\ item[1] = "PRIMARY" /\ item[2] = "KEY" THEN 3
            ELSE IF Len(item) >= 1 /\ item[1] = "UNIQUE" THEN 2
            ELSE 0,
            LAMBDA from :
                /\ from # 0
                /\ Len(item) >= from + 2
                /\ item[from] = "("
                /\ item[Len(item)] = ")"
                /\ \A j \in (from + 1)..(Len(item) - 1) :
                       IF (j - from) % 2 = 1 THEN IsIdent(item[j]) ELSE item[j] = ","
                /\ (Len(item) - from) % 2 = 0))

NoTable == [ok |-> FALSE, name |-> "", cols |-> <<>>]

\* CREATE TABLE name ( ... ) with balanced parentheses.
CreateTableShape(toks) ==
    /\ Len(toks) >= 6
    /\ toks[1] = "CREATE"
    /\ toks[2] = "TABLE"
    /\ IsIdent(toks[3])
    /\ toks[4] = "("
    /\ toks[Len(toks)] = ")"
    /\ \A i \in 4..(Len(toks) - 1) : ParenDepth(toks, i) >= 1
    /\ ParenDepth(toks, Len(toks)) = 0

\* CREATE TABLE name ( item , ... ): the table it defines, or failure.
ParseCreateTable(toks0) ==
    Let(toks0, LAMBDA toks :
        IF ~CreateTableShape(toks) THEN NoTable
        ELSE
        Let(SubSeq(toks, 5, Len(toks) - 1), LAMBDA body :
        Let(Pieces(body, {i \in 1..Len(body) : body[i] = "," /\ ParenDepth(body, i) = 0}),
            LAMBDA items :
        Let(SortedSeq({k \in 1..Len(items) : ColumnDefOk(items[k])}), LAMBDA colIdx :
            IF /\ \A k \in 1..Len(items) :
                     (\E c \in 1..Len(colIdx) : colIdx[c] = k) \/ TableConstraintOk(items[k])
               /\ Len(colIdx) > 0
               /\ \A c1, c2 \in 1..Len(colIdx) :
                     c1 # c2 => items[colIdx[c1]][1] # items[colIdx[c2]][1]
            THEN [ok |-> TRUE,
                  name |-> toks[3],
                  cols |-> [c \in 1..Len(colIdx) |-> items[colIdx[c]][1]]]
            ELSE NoTable))))

TableNames(store) == {store.tables[i].name : i \in 1..Len(store.tables)}

\* PRAGMA table_info(table): the columns of the table, none when there is no such table.
ColumnsOf(store, table) ==
    IF table \in TableNames(store)
    THEN (CHOOSE t \in {store.tables[i] : i \in 1..Len(store.tables)} : t.name = table).cols
    ELSE <<>>

\* One statement, given by its tokens, against the store.
SqliteExecOne(store, toks) ==
    IF Len(toks) = 0 THEN [ok |-> TRUE, store |-> store]
    ELSE Let(ParseCreateTable(toks), LAMBDA ct :
             IF ct.ok /\ ct.name \notin TableNames(store)
             THEN [ok |-> TRUE,
                   store |-> [store EXCEPT
                                 !.tables = Append(@, [name |-> ct.name, cols |-> ct.cols])]]
             ELSE [ok |-> FALSE, store |-> store])

RECURSIVE SqliteExecAll(_, _, _)
SqliteExecAll(store0, stmts, k0) ==
    Let(store0, LAMBDA store :
        Let(k0, LAMBDA k :
            IF k > Len(stmts) THEN [ok |-> TRUE, store |-> store]
            ELSE Let(SqliteExecOne(store, stmts[k]), LAMBDA r :
                     IF r.ok THEN SqliteExecAll(r.store, stmts, k + 1) ELSE r)))

\* db.Exec(stmt)
SqliteExec(store, stmt) ==
    Let(SqlTokens(stmt), LAMBDA toks :
        Let(Pieces(toks, {i \in 1..Len(toks) : toks[i] = ";"}), LAMBDA stmts :
            SqliteExecAll(store, stmts, 1)))

(***************************************************************************)
(* insertCopyData: one bulk-load block against the store, in a transaction *)
(* of its own.  A row whose field count differs from the table's column    *)
(* count is skipped; the others are inserted in order.  What the store     *)
(* does to the block is env: the call that fails (failAt: db.Begin, the    *)
(* column query, tx.Prepare, tx.Commit, or none) and the rows whose        *)
(* stmt.Exec the store rejects (rejected, indices into data).              *)
(***************************************************************************)
NoFaults == [failAt |-> "none", rejected |-> {}]

\* The indices of the rows of data that have as many fields as table has columns.
InsertableRows(store, table, data) ==
    {i \in 1..Len(data) : Len(parseCopyLine(data[i])) = Len(ColumnsOf(store, table))}

\* What the store can do to a block.  A block without rows opens no transaction.
CopyEnvs(store, table, data) ==
    IF Len(data) = 0 THEN {NoFaults}
    ELSE {[failAt |-> f, rejected |-> {}] : f \in {"begin", "columns", "prepare"}}
         \cup {[failAt |-> f, rejected |-> r] :
                 f \in {"none", "commit"}, r \in SUBSET InsertableRows(store, table, data)}

\* A transaction that ends without a successful Commit leaves the store as it
\* was at Begin, whatever was inserted since: the deferred tx.Rollback, and the
\* driver's rollback of a transaction whose COMMIT failed.
RollbackKeepsInserts(atBegin, now) == now

Rollback(atBegin, now) == atBegin

insertCopyData(store0, table, data0, env) ==
    Let(store0, LAMBDA store :
    Let(data0, LAMBDA data :
    Let(ColumnsOf(store, table), LAMBDA columns :
        IF Len(data) = 0 THEN [ok |-> TRUE, store |-> store]
        ELSE IF env.failAt = "begin" THEN [ok |-> FALSE, store |-> store]
        ELSE IF env.failAt \in {"columns", "prepare"} \/ Len(columns) = 0
        THEN [ok |-> FALSE, store |-> Rollback(store, store)]
        ELSE Let([i \in 1..Len(data) |-> parseCopyLine(data[i])], LAMBDA values :
             Let(SortedSeq({i \in 1..Len(data) : Len(values[i]) = Len(columns)
                                                  /\ i \notin env.rejected}), LAMBDA kept :
             Let([store EXCEPT
                     !.rows = @ \o [i \in 1..Len(kept) |->
                                       [table |-> table, vals |-> values[kept[i]]]]], LAMBDA inserted :
                 IF env.failAt = "commit"
                 THEN [ok |-> FALSE, store |-> Rollback(store, inserted)]
                 ELSE [ok |-> TRUE, store |-> inserted]))))))

(***************************************************************************)
(* The dumps of the model.  A scenario is a dump with what it is made of:  *)
(*   general  any sequence of at most MaxLines lines of the alphabet;      *)
(*   pair     one malformed and one well-formed CREATE TABLE statement;    *)
(*   copy     a table definition followed by one bulk-load block;          *)
(*   failing  a statement the store rejects, a bulk-load block into a      *)
(*            table that does not exist, and a table definition;           *)
(*   function a function definition (its lines are rawRows) followed by a  *)
(*            table definition;                                            *)
(*   typed    a table definition over several lines whose columns have     *)
(*            PostgreSQL types;                                            *)
(*   verbatim a table definition and a bulk-load block whose data lines    *)
(*            (rawRows) look like other things: a comment, a directive;    *)
(*   comma    a table definition whose last column ends with a comma;      *)
(*   dropped  a sequence or ownership statement (its lines are rawRows)    *)
(*            followed by a table definition;                              *)
(*   constraint  an ALTER TABLE ... ADD CONSTRAINT statement, with the     *)
(*            index-creation statement it stands for as rawRows;           *)
(*   options  a table definition (rawRows) whose closing line may carry     *)
(*            table options, followed by other statements;                 *)
(*   intact   a table definition without a trailing comma;                 *)
(*   unterminated  a table definition followed by a statement or a         *)
(*            bulk-load block (rawRows) that the end of the dump cuts off. *)
(***************************************************************************)
Alphabet ==
    {"CREATE TABLE a (", "id INT,", "name TEXT", ");",
     "CREATE TABLE b (id INT);", "SET x = 1;", "bogus;", "-- comment",
     "COPY b (id) FROM stdin;", "7", "\\.",
     "CREATE FUNCTION f() RETURNS int AS $$", "$$ LANGUAGE sql;"}

Scenario(kind, lines, good, rawRows, target) ==
    [kind |-> kind, lines |-> lines, good |-> good, rawRows |-> rawRows, target |-> target]

GeneralScenarios ==
    {Scenario("general", lines, <<>>, <<>>, "") :
        lines \in UNION {[1..n -> Alphabet] : n \in 0..MaxLines}}

\* CREATE TABLE statements the store rejects as they stand in the dump.
MalformedStatements ==
    {<<"CREATE TABLE users (", "id INTEGER PRIMARY,", "name TEXT,", ");">>,
     <<"CREATE TABLE bad (", "id INT,", ");">>,
     <<"CREATE TABLE bad (id INT;">>}

\* CREATE TABLE statements the store accepts as they stand in the dump.
WellFormedStatements ==
    {<<"CREATE TABLE users (", "id INTEGER PRIMARY KEY,", "name TEXT", ");">>,
     <<"CREATE TABLE good (id INT);">>,
     <<"CREATE TABLE good (id INT, name TEXT);">>,
     <<"CREATE TABLE good (id INT, PRIMARY KEY (id));">>}

\* What a statement means: the tables of a store that has executed its text.
TablesOf(statement) == SqliteExec(EmptyStore, Join(statement, " ")).store.tables

PairScenarios ==
    {Scenario("pair", IF badFirst THEN bad \o good ELSE good \o bad, TablesOf(good), <<>>, "") :
        bad \in MalformedStatements, good \in WellFormedStatements, badFirst \in BOOLEAN}

\* Data lines of a bulk-load block into a table of two columns: two fields, one
\* field, three fields, and two fields of which the last is the empty string.
CopyRows == {"1\tx", "2", "3\ty\tz", "4\t"}

CopyTableLines == <<"CREATE TABLE t (", "a INT,", "b TEXT", ");">>

CopyBlocks == UNION {[1..n -> CopyRows] : n \in 0..MaxCopyRows}

CopyScenarios ==
    {Scenario("copy",
              CopyTableLines \o <<"COPY public.t (a, b) FROM stdin;">> \o rows \o <<"\\.">>,
              TablesOf(CopyTableLines), rows, "t") :
        rows \in CopyBlocks}

FailingScenarios ==
    {Scenario("failing",
              <<"bogus;", "COPY public.t (a, b) FROM stdin;">> \o rows
                  \o <<"\\.", "CREATE TABLE b (id INT);">>,
              TablesOf(<<"CREATE TABLE b (id INT);">>), rows, "t") :
        rows \in CopyBlocks}

\* Function definitions as pg_dump writes them (the language clause before the
\* body) and as they are written by hand (the body between two $$ lines).
FunctionDefinitions ==
    {<<"CREATE FUNCTION f() RETURNS integer", "LANGUAGE sql", "AS $$SELECT 1$$;">>,
     <<"CREATE FUNCTION f() RETURNS int AS $$", "SELECT 1;", "$$ LANGUAGE sql;">>,
     <<"CREATE OR REPLACE FUNCTION g() RETURNS int AS $$", "BEGIN", "RETURN 1;", "END;",
       "$$ LANGUAGE plpgsql;">>}

FunctionScenarios ==
    {Scenario("function", def \o <<"CREATE TABLE b (id INT);">>,
              TablesOf(<<"CREATE TABLE b (id INT);">>), def, "") :
        def \in FunctionDefinitions}

TypedTableLines == <<"CREATE TABLE c (", "id serial,", "name text", ");">>

TypedScenarios == {Scenario("typed", TypedTableLines, TablesOf(TypedTableLines), <<>>, "c")}

\* Data lines of a bulk-load block into a table of two columns: a plain one, one
\* that starts with a space, one that starts like a comment, one that starts
\* like a bulk-load directive, and one that holds the words CREATE FUNCTION.
VerbatimRows == {"1\tx", " 2\ty", "-- 3\tz", "COPY 4\tw", "5\tCREATE FUNCTION"}

VerbatimBlocks == UNION {[1..n -> VerbatimRows] : n \in 0..MaxCopyRows}

VerbatimScenarios ==
    {Scenario("verbatim",
              CopyTableLines \o <<"COPY public.t (a, b) FROM stdin;">> \o rows \o <<"\\.">>,
              TablesOf(CopyTableLines), rows, "t") :
        rows \in VerbatimBlocks}

\* Table definitions whose last column definition ends with a comma: on the line
\* before the closing line, on the closing line, and on the only line.
TrailingCommaStatements ==
    {<<"CREATE TABLE a (", "id INT,", "name TEXT,", ");">>,
     <<"CREATE TABLE a (", "id INT,", "name TEXT,);">>,
     <<"CREATE TABLE a (id INT, name TEXT,);">>}

CommaScenarios ==
    {Scenario("comma", lines, TablesOf(<<"CREATE TABLE a (id INT, name TEXT);">>), <<>>, "a") :
        lines \in TrailingCommaStatements}

\* Sequence and ownership statements, on one line and over several lines.
DroppedStatements ==
    {<<"CREATE SEQUENCE users_id_seq;">>,
     <<"CREATE SEQUENCE users_id_seq", "START WITH 1", "INCREMENT BY 1", "CACHE 1;">>,
     <<"ALTER SEQUENCE users_id_seq OWNED BY users.id;">>,
     <<"ALTER SEQUENCE users_id_seq", "OWNED BY users.id;">>,
     <<"ALTER TABLE users OWNER TO postgres;">>,
     <<"ALTER TABLE users", "OWNER TO postgres;">>}

DroppedScenarios ==
    {Scenario("dropped", lines \o <<"CREATE TABLE b (id INT);">>,
              TablesOf(<<"CREATE TABLE b (id INT);">>), lines, "") :
        lines \in DroppedStatements}

\* The three constraint shapes on table orders, and the statement each stands for.
ConstraintClauses ==
    {[clause |-> "ADD CONSTRAINT orders_pkey PRIMARY KEY (id);",
      want |-> "CREATE UNIQUE INDEX IF NOT EXISTS pk_orders ON orders (id);"],
     [clause |-> "ADD CONSTRAINT orders_user_fk FOREIGN KEY (user_id) REFERENCES users(id);",
      want |-> "CREATE INDEX IF NOT EXISTS fk_orders_users ON orders (user_id);"],
     [clause |-> "ADD CONSTRAINT orders_no_key UNIQUE (no);",
      want |-> "CREATE UNIQUE INDEX IF NOT EXISTS orders_no_key ON orders (no);"]}

\* Each on one line or over two, with and without ONLY.
ConstraintScenarios ==
    {Scenario("constraint",
              IF oneLine THEN <<head \o " " \o c.clause>> ELSE <<head, c.clause>>,
              <<>>, <<c.want>>, "orders") :
        c \in ConstraintClauses, head \in {"ALTER TABLE orders", "ALTER TABLE ONLY orders"},
        oneLine \in BOOLEAN}

\* Closing lines of a table definition: plain, and with table options between
\* the parenthesis and the semicolon.
ClosingLines == {");", ") ENGINE=InnoDB;", ") TABLESPACE fast;"}

OptionsScenarios ==
    {Scenario("options",
              def \o <<"ALTER TABLE c OWNER TO postgres;", "CREATE TABLE b (id INT);">>,
              <<>>, def, "c") :
        def \in {<<"CREATE TABLE c (", "id INT", closing>> : closing \in ClosingLines}
                 \cup {<<"CREATE TABLE c (id INT" \o closing>> : closing \in ClosingLines}}

\* Table definitions that have no trailing comma.
IntactStatements ==
    {<<"CREATE TABLE a (id INT, name TEXT);">>,
     <<"CREATE TABLE p (", "id INT,", "price numeric(10,2));">>,
     <<"CREATE TABLE p (", "id INT,", "price numeric(10,2)", ");">>}

IntactScenarios ==
    {Scenario("intact", lines, <<>>, lines, "") : lines \in IntactStatements}

\* What the end of the dump cuts off: a statement, a bulk-load block, or both.
CutOffLines ==
    {<<"CREATE TABLE a (", "id INT">>,
     <<"CREATE TABLE a (id INT)">>,
     <<"COPY b (id) FROM stdin;", "7", "8">>,
     <<"CREATE TABLE a (", "COPY b (id) FROM stdin;", "7">>}

UnterminatedScenarios ==
    {Scenario("unterminated", <<"CREATE TABLE b (id INT);">> \o rest,
              TablesOf(<<"CREATE TABLE b (id INT);">>), rest, "b") :
        rest \in CutOffLines}

\* Data lines of a block into a table of two columns: one that fits and one that
\* has a single field.
BlockRows == {"1\tx", "2"}

Blocks == UNION {[1..n -> BlockRows] : n \in 0..MaxCopyRows}

\* A table definition followed by two bulk-load blocks into the table; rawRows
\* are the data lines of both.
BlockScenarios ==
    {Scenario("blocks",
              CopyTableLines \o <<"COPY public.t (a, b) FROM stdin;">> \o first \o <<"\\.">>
                  \o <<"COPY public.t (a, b) FROM stdin;">> \o second \o <<"\\.">>,
              TablesOf(CopyTableLines), first \o second, "t") :
        first \in Blocks, second \in Blocks}

Scenarios ==
    GeneralScenarios \cup PairScenarios \cup CopyScenarios \cup FailingScenarios
        \cup FunctionScenarios \cup TypedScenarios \cup VerbatimScenarios
        \cup CommaScenarios \cup DroppedScenarios \cup ConstraintScenarios
        \cup OptionsScenarios \cup IntactScenarios \cup UnterminatedScenarios

NoScenario == Scenario("none", <<>>, <<>>, <<>>, "")

(***************************************************************************)
(* The state of the model.                                                 *)
(*                                                                         *)
(* ParseToSQLite: the position in the code (parsePc), the dump being read  *)
(* (scenario, pos), the temporary staging file and the store behind it,    *)
(* the local variables of the scanning loop, and what the call returns.    *)
(* fault, tmpCreated, execLog and copyLog record what happened: which step *)
(* the environment made fail, and what was handed to the store.  dbType is *)
(* the parser's field of that name; lastConv records the conversions the   *)
(* loop applied to the line it read last.                                  *)
(*                                                                         *)
(* Export: the call (exp) and its output file (expFile).                   *)
(*                                                                         *)
(* main: the position of the main goroutine (mainPc), the tables selected, *)
(* the export jobs, the files of the output directory (fs), the error      *)
(* channel, the wait group's counter, and what main reports.               *)
(*                                                                         *)
(* The database helpers: the calls made so far and what each did (dbLog).  *)
(*                                                                         *)
(* The conversion functions called on their own: the call (fnIn: the       *)
(* function and its argument) and its result (fnOut).                      *)
(***************************************************************************)
VARIABLES parsePc, scenario, pos, tmpExists, tmpCreated, dbOpen, staging,
          currentStatement, inCopy, copyData, currentTable, inFunction, inCreateTable,
          retPath, retErr, fault, execLog, copyLog, dbType, lastConv,
          exp, expFile,
          mainPc, selectedTables, spawned, jobs, fs, errChan, wgCount, hasErrors,
          successPrinted, errLog,
          dbLog,
          fnIn, fnOut,
          run

parseVars == <<parsePc, scenario, pos, tmpExists, tmpCreated, dbOpen, staging,
               currentStatement, inCopy, copyData, currentTable, inFunction, inCreateTable,
               retPath, retErr, fault, execLog, copyLog, dbType, lastConv>>

exportVars == <<exp, expFile>>

mainVars == <<mainPc, selectedTables, spawned, jobs, fs, errChan, wgCount, hasErrors,
              successPrinted, errLog>>

dbVars == <<dbLog>>

fnVars == <<fnIn, fnOut>>

runVars == <<run>>

vars == <<parseVars, exportVars, mainVars, dbVars, fnVars, runVars>>

(***************************************************************************)
(* ParseToSQLite.                                                          *)
(***************************************************************************)
\* The name os.CreateTemp("", "sql_import_*.db") gives the staging file.
TempPath == "/tmp/sql_import_1.db"

\* os.Remove(tmpfile.Name()): whether the staging file exists after the call.
RemoveKept(exists) == exists

Remove(exists) == FALSE

\* The error ParseToSQLite returns when db.Exec or insertCopyData has failed:
\* none, the failure is logged and the loop goes on.
onExecErrorReturn(res) == IF res.ok THEN "" ELSE "failed to execute statement"

onExecError(res) == ""

\* What the loop did to the line it read last: whether the line belongs to a
\* table definition (inCreateTable was set when it was read, or the line set
\* it), and whether it went through convertCreateTable (typed) and through
\* convertSyntax (syntaxed).
NoConv == [line |-> "", inTable |-> FALSE, typed |-> FALSE, syntaxed |-> FALSE]

\* Lines 122-137: the line as it joins the current statement, and inCreateTable.
ConvertLine(inCreate, line, order) ==
    Let(HasPrefix(line, "CREATE TABLE"), LAMBDA isCreate :
    Let(IF isCreate THEN convertCreateTable(line, order) ELSE line, LAMBDA line1 :
    Let((isCreate \/ inCreate) /\ Contains(line1, ");"), LAMBDA closing :
    Let(IF closing THEN cleanupCreateTable(line1) ELSE line1, LAMBDA line2 :
        [inCreateTable |-> (isCreate \/ inCreate) /\ ~closing,
         line |-> IF (isCreate \/ inCreate) /\ ~closing THEN line2 ELSE convertSyntax(line2),
         conv |-> [line |-> line,
                   inTable |-> isCreate \/ inCreate,
                   typed |-> isCreate,
                   syntaxed |-> ~((isCreate \/ inCreate) /\ ~closing)]]))))

\* Lines 122-155: a line that is part of a statement.
StatementLine(v, line, order) ==
    Let(ConvertLine(v.inCreateTable, line, order), LAMBDA c :
        IF c.line = "" THEN [v EXCEPT !.conv = c.conv, !.inCreateTable = c.inCreateTable]
        ELSE Let(v.currentStatement \o c.line \o " ", LAMBDA stmt :
             IF ~HasSuffix(c.line, ";")
             THEN [v EXCEPT !.conv = c.conv, !.inCreateTable = c.inCreateTable, !.currentStatement = stmt]
             ELSE IF shouldSkipStatement(stmt)
             THEN [v EXCEPT !.conv = c.conv, !.inCreateTable = c.inCreateTable, !.currentStatement = ""]
             ELSE Let(SqliteExec(v.store, stmt), LAMBDA exec :
                      [v EXCEPT !.conv = c.conv, !.inCreateTable = c.inCreateTable,
                                !.currentStatement = "",
                                !.store = exec.store,
                                !.err = onExecError(exec),
                                !.execLog = Append(@, [stmt |-> stmt, ok |-> exec.ok])])))

\* Lines 108-120: a line read while inCopy is set.
CopyLine(v, line, env) ==
    IF line = "\\."
    THEN Let(insertCopyData(v.store, v.currentTable, v.copyData, env), LAMBDA copy :
             [v EXCEPT !.inCopy = FALSE,
                       !.copyData = <<>>,
                       !.store = copy.store,
                       !.err = onExecError(copy),
                       !.copyLog = Append(@, [table |-> v.currentTable,
                                              data |-> v.copyData,
                                              ok |-> copy.ok,
                                              failAt |-> env.failAt,
                                              rejected |-> env.rejected])])
    ELSE [v EXCEPT !.copyData = Append(@, line)]

\* One pass of the scanning loop over the raw line: the loop's variables, the
\* store and the logs after it.  err is the error the pass returns with, if any.
LoopBody(v0, raw, order, env) ==
    Let([v0 EXCEPT !.conv = NoConv], LAMBDA v :
    Let(TrimSpace(raw), LAMBDA line :
        IF line = "" \/ HasPrefix(line, "--") \/ HasPrefix(line, "/*") THEN v
        ELSE IF Contains(line, "CREATE FUNCTION") \/ Contains(line, "CREATE OR REPLACE FUNCTION")
        THEN [v EXCEPT !.inFunction = TRUE]
        ELSE IF v.inFunction
        THEN [v EXCEPT !.inFunction = ~(Contains(line, "$$") \/ Contains(line, "LANGUAGE"))]
        ELSE IF HasPrefix(line, "COPY ") /\ Len(Fields(line)) > 1
        THEN [v EXCEPT !.currentTable = TrimPrefix(Fields(line)[2], "public."),
                       !.inCopy = TRUE,
                       !.copyData = <<>>]
        ELSE IF v.inCopy THEN CopyLine(v, line, env)
        ELSE StatementLine(v, line, order)))

Values == [k : STRING, s : STRING, n : Int, b : BOOLEAN]

Stores == [tables : Seq([name : STRING, cols : Seq(STRING)]),
           rows : Seq([table : STRING, vals : Seq(Values)])]

LoopStates ==
    [currentStatement : STRING, inCopy : BOOLEAN, copyData : Seq(STRING),
     currentTable : STRING, inFunction : BOOLEAN, inCreateTable : BOOLEAN,
     store : Stores, err : STRING,
     execLog : Seq([stmt : STRING, ok : BOOLEAN]),
     copyLog : Seq([table : STRING, data : Seq(STRING), ok : BOOLEAN,
                    failAt : STRING, rejected : SUBSET Nat]),
     conv : [line : STRING, inTable : BOOLEAN, typed : BOOLEAN, syntaxed : BOOLEAN]]

Envs == [failAt : STRING, rejected : SUBSET Nat]

LoopBodyOf[v \in LoopStates, raw \in STRING, order \in RuleOrders, env \in Envs] ==
    LoopBody(v, raw, order, env)

LineOrders[raw \in STRING] ==
    IF HasPrefix(TrimSpace(raw), "CREATE TABLE") THEN RuleOrders ELSE {SourceOrder}

\* os.CreateTemp: the staging file is created, or the call fails.
CreateTemp ==
    /\ parsePc = "CreateTemp"
    /\ \E ok \in BOOLEAN :
          IF ok
          THEN /\ tmpExists' = TRUE
               /\ tmpCreated' = TRUE
               /\ parsePc' = "Connect"
               /\ UNCHANGED <<retPath, retErr, fault>>
          ELSE /\ retPath' = ""
               /\ retErr' = "failed to create temp database"
               /\ fault' = "CreateTemp"
               /\ parsePc' = "Returned"
               /\ UNCHANGED <<tmpExists, tmpCreated>>
    /\ UNCHANGED <<scenario, pos, dbOpen, staging, currentStatement, inCopy, copyData,
                   currentTable, inFunction, inCreateTable, execLog, copyLog>>
    /\ UNCHANGED <<dbType, lastConv, exportVars, mainVars, dbVars, fnVars, runVars>>

\* Connect to the staging file; on failure the file is removed.
ConnectStaging ==
    /\ parsePc = "Connect"
    /\ \E ok \in BOOLEAN :
          IF ok
          THEN /\ dbOpen' = TRUE
               /\ parsePc' = "Open"
               /\ UNCHANGED <<tmpExists, retPath, retErr, fault>>
          ELSE /\ tmpExists' = Remove(tmpExists)
               /\ retPath' = ""
               /\ retErr' = "failed to connect to temp database"
               /\ fault' = "Connect"
               /\ parsePc' = "Returned"
               /\ UNCHANGED dbOpen
    /\ UNCHANGED <<scenario, pos, tmpCreated, staging, currentStatement, inCopy, copyData,
                   currentTable, inFunction, inCreateTable, execLog, copyLog>>
    /\ UNCHANGED <<dbType, lastConv, exportVars, mainVars, dbVars, fnVars, runVars>>

\* os.Open(p.filePath): the dump is what the file holds; on failure the staging
\* file is removed and the deferred db.Close runs.
OpenDump ==
    /\ parsePc = "Open"
    /\ \E sc \in Scenarios \cup {NoScenario} :
          IF sc # NoScenario
          THEN /\ scenario' = sc
               /\ parsePc' = "Scan"
               /\ UNCHANGED <<tmpExists, dbOpen, retPath, retErr, fault>>
          ELSE /\ tmpExists' = Remove(tmpExists)
               /\ dbOpen' = FALSE
               /\ retPath' = ""
               /\ retErr' = "failed to open SQL dump file"
               /\ fault' = "Open"
               /\ parsePc' = "Returned"
               /\ UNCHANGED scenario
    /\ UNCHANGED <<pos, tmpCreated, staging, currentStatement, inCopy, copyData,
                   currentTable, inFunction, inCreateTable, execLog, copyLog>>
    /\ UNCHANGED <<dbType, lastConv, exportVars, mainVars, dbVars, fnVars, runVars>>

\* scanner.Scan() gives the next line and the loop body runs on it, with the
\* store treating a bulk-load block as env says.
ProcessLineIn(env) ==
    /\ parsePc = "Scan"
    /\ pos <= Len(scenario.lines)
    /\ \E order \in LineOrders[scenario.lines[pos]] :
       \E n \in {LoopBodyOf[[currentStatement |-> currentStatement, inCopy |-> inCopy,
                             copyData |-> copyData, currentTable |-> currentTable,
                             inFunction |-> inFunction, inCreateTable |-> inCreateTable,
                             store |-> staging, err |-> "", execLog |-> execLog,
                             copyLog |-> copyLog, conv |-> lastConv],
                            scenario.lines[pos], order, env]} :
          /\ currentStatement' = n.currentStatement
          /\ inCopy' = n.inCopy
          /\ copyData' = n.copyData
          /\ currentTable' = n.currentTable
          /\ inFunction' = n.inFunction
          /\ inCreateTable' = n.inCreateTable
          /\ staging' = n.store
          /\ execLog' = n.execLog
          /\ copyLog' = n.copyLog
          /\ lastConv' = n.conv
          /\ IF n.err = ""
             THEN /\ pos' = pos + 1
                  /\ UNCHANGED <<parsePc, retPath, retErr, tmpExists, dbOpen>>
             ELSE /\ parsePc' = "Returned"
                  /\ retPath' = ""
                  /\ retErr' = n.err
                  /\ tmpExists' = Remove(tmpExists)
                  /\ dbOpen' = FALSE
                  /\ UNCHANGED pos
    /\ UNCHANGED <<scenario, tmpCreated, fault, dbType>>
    /\ UNCHANGED <<exportVars, mainVars, dbVars, fnVars, runVars>>

\* A line is processed and the store does not fail.
ProcessLine ==
    /\ parsePc = "Scan"
    /\ ProcessLineIn(NoFaults)

\* A line is processed; if it ends a bulk-load block, the store does to the block
\* any of the things it can do.
ProcessBlockLine ==
    /\ parsePc = "Scan"
    /\ pos <= Len(scenario.lines)
    /\ \E env \in (IF inCopy /\ TrimSpace(scenario.lines[pos]) = "\\."
                   THEN CopyEnvs(staging, currentTable, copyData)
                   ELSE {NoFaults}) :
          ProcessLineIn(env)

\* scanner.Scan() fails on a read error: scanner.Err() is not nil, the staging
\* file is removed, and the deferred Close calls run.
ScanError ==
    /\ parsePc = "Scan"
    /\ tmpExists' = Remove(tmpExists)
    /\ dbOpen' = FALSE
    /\ retPath' = ""
    /\ retErr' = "error reading SQL dump"
    /\ fault' = "Scan"
    /\ parsePc' = "Returned"
    /\ UNCHANGED <<scenario, pos, tmpCreated, staging, currentStatement, inCopy, copyData,
                   currentTable, inFunction, inCreateTable, execLog, copyLog>>
    /\ UNCHANGED <<dbType, lastConv, exportVars, mainVars, dbVars, fnVars, runVars>>

\* Lines 156-163: after the loop nothing is done with what is pending, the
\* current statement and the rows of an open bulk-load block; the store stays
\* as the loop left it.
atEndOfInputFlushes(store, stmt, table, data) ==
    insertCopyData(SqliteExec(store, stmt).store, table, data, NoFaults).store

atEndOfInput(store, stmt, table, data) == store

\* End of input: the staging file's name is returned, and the deferred Close
\* calls run.
ScanEnd ==
    /\ parsePc = "Scan"
    /\ pos > Len(scenario.lines)
    /\ staging' = atEndOfInput(staging, currentStatement, currentTable, copyData)
    /\ dbOpen' = FALSE
    /\ retPath' = TempPath
    /\ retErr' = ""
    /\ parsePc' = "Returned"
    /\ UNCHANGED <<scenario, pos, tmpExists, tmpCreated, currentStatement, inCopy,
                   copyData, currentTable, inFunction, inCreateTable, fault, execLog, copyLog>>
    /\ UNCHANGED <<dbType, lastConv, exportVars, mainVars, dbVars, fnVars, runVars>>

NextParse == CreateTemp \/ ConnectStaging \/ OpenDump \/ ProcessLine \/ ScanError \/ ScanEnd

\* The scanning loop over a dump of bulk-load blocks, with a store that can fail.
NextCopy == ProcessBlockLine \/ ScanError \/ ScanEnd

(***************************************************************************)
(* Export.  A table of the source database is its name, its columns and    *)
(* the number of its rows; row i holds CellAt(i, c) in column c, so that   *)
(* every dynamic type a driver hands to Scan occurs.  The output file is   *)
(* what has reached the file system (content, as CSV records); the records *)
(* the csv.Writer still holds are in the export's buffer.                  *)
(***************************************************************************)
batchSize == 1000

\* strconv's decimal text of a natural number.
RECURSIVE Itoa(_)
Itoa(n0) ==
    Let(n0, LAMBDA n :
        IF n < 10 THEN CharAt(Digits, n + 1)
        ELSE Itoa(n \div 10) \o CharAt(Digits, (n % 10) + 1))

\* fmt.Sprintf("%v", v) for the values a driver produces.
Sprintv(v) ==
    IF v.k = "int" THEN (IF v.n < 0 THEN "-" \o Itoa(0 - v.n) ELSE Itoa(v.n))
    ELSE IF v.k = "bool" THEN (IF v.b THEN "true" ELSE "false")
    ELSE v.s

formatValue(v) ==
    IF v.k = "nil" THEN ""
    ELSE IF v.k = "bytes" THEN v.s
    ELSE Sprintv(v)

CellAt(i, c) ==
    IF (i + c) % 5 = 0 THEN NilValue
    ELSE IF (i + c) % 5 = 1 THEN IntValue(i)
    ELSE IF (i + c) % 5 = 2 THEN StringValue("s" \o Itoa(i))
    ELSE IF (i + c) % 5 = 3 THEN BytesValue("b" \o Itoa(i))
    ELSE BoolValue(i % 2 = 0)

\* The row counts of the tables Export is run on: the small ones, and those
\* around the size of a batch.
RowCounts == (0..MaxRows) \cup {batchSize, batchSize + 1}

ExportTables ==
    {[name |-> "users", columns |-> <<"id", "name", "age">>, n |-> n] : n \in RowCounts}
    \cup {[name |-> "orders", columns |-> <<"id">>, n |-> n] : n \in RowCounts}

OutputDir == "out"

\* filepath.Join(dir, file) for a directory and a plain file name.
FilepathJoin(dir, file) == IF dir = "" THEN file ELSE dir \o "/" \o file

\* fmt.Sprintf("%s.csv", tableName)
OutputFileFixed(tableName) == "export.csv"

OutputFile(tableName) == tableName \o ".csv"

NoFile == [exists |-> FALSE, content |-> <<>>, writers |-> {}]

\* A file an earlier run left at the output path.
StaleFile == [exists |-> TRUE, content |-> <<<<"old">>>>, writers |-> {"previous"}]

IdleExport ==
    [pc |-> "Idle", tableName |-> "", columns |-> <<>>, output |-> "", rowCount |-> 0,
     next |-> 1, batch |-> <<>>, count |-> 0, buffer |-> <<>>, werr |-> FALSE,
     created |-> FALSE, ret |-> "", failed |-> ""]

\* rowCount is the size of the table behind the name: what the query will find.
NewTableExporter(tableName, columns, outputDir, rowCount) ==
    [IdleExport EXCEPT !.pc = "Create",
                       !.tableName = tableName,
                       !.columns = columns,
                       !.output = FilepathJoin(outputDir, OutputFile(tableName)),
                       !.rowCount = rowCount]

\* A return of Export after the writer exists: the deferred writer.Flush() hands
\* the buffered records to the file, or fails, and its result is dropped.  cause is
\* the failure the return is due to, if any; failed keeps the first failure.
Return(e, f, ret, cause, flushOk) ==
    [e |-> [e EXCEPT !.pc = "Returned",
                     !.ret = ret,
                     !.buffer = <<>>,
                     !.failed = IF cause # "" THEN cause
                                ELSE IF @ = "" /\ ~e.werr /\ e.buffer # <<>> /\ ~flushOk
                                THEN "flush"
                                ELSE @],
     f |-> IF ~e.werr /\ e.buffer # <<>> /\ flushOk
           THEN [f EXCEPT !.content = @ \o e.buffer]
           ELSE f]

\* os.Create opens with O_TRUNC: what the file held is gone.
TruncateKeeps(content) == content

Truncate(content) == <<>>

\* Lines 34-38: os.Create truncates or creates the file.
ExportCreate(e, f, ok) ==
    IF ok
    THEN [e |-> [e EXCEPT !.pc = "Header", !.created = TRUE],
          f |-> [exists |-> TRUE, content |-> Truncate(f.content),
                 writers |-> f.writers \cup {e.tableName}]]
    ELSE [e |-> [e EXCEPT !.pc = "Returned",
                          !.ret = "error creating output file",
                          !.failed = "create"],
          f |-> f]

\* Lines 40-46: the header goes to the writer's buffer.
ExportHeader(e, f, ok, flushOk) ==
    IF ok
    THEN [e |-> [e EXCEPT !.pc = "Query", !.buffer = Append(@, e.columns)], f |-> f]
    ELSE Return([e EXCEPT !.werr = TRUE], f, "error writing header", "write", flushOk)

\* Lines 48-68.
ExportQuery(e, f, ok, flushOk) ==
    IF ok
    THEN [e |-> [e EXCEPT !.pc = "Rows", !.next = 1, !.batch = <<>>, !.count = 0], f |-> f]
    ELSE Return(e, f, "error querying data", "query", flushOk)

\* Line 84: the batch is written when count has reached batchSize.
BatchFullLate(count) == count > batchSize

BatchFull(count) == count >= batchSize

\* What rows.Next() and the body of the loop can do at this point.
RowOutcomes(e) ==
    IF e.next <= e.rowCount
    THEN {"row", "scanError", "iterationError"}
         \cup (IF BatchFull(e.count + 1) THEN {"writeError"} ELSE {})
    ELSE {"end", "iterationError"}

Record(e, i) == [c \in 1..Len(e.columns) |-> formatValue(CellAt(i, c))]

\* Lines 70-91: one turn of the loop.  rows.Next() gives a row, or ends the loop:
\* at the end of the result set, or on an error of the iteration.
ExportRow(e, f, outcome, flushOk) ==
    IF outcome = "end" THEN [e |-> [e EXCEPT !.pc = "Final"], f |-> f]
    ELSE IF outcome = "iterationError"
    THEN [e |-> [e EXCEPT !.pc = "Final", !.failed = "iteration"], f |-> f]
    ELSE IF outcome = "scanError"
    THEN Return(e, f, "error scanning row", "scan", flushOk)
    ELSE IF ~BatchFull(e.count + 1)
    THEN [e |-> [e EXCEPT !.batch = Append(@, Record(e, e.next)),
                          !.count = @ + 1,
                          !.next = @ + 1],
          f |-> f]
    ELSE IF outcome = "writeError"
    THEN Return([e EXCEPT !.werr = TRUE, !.batch = Append(@, Record(e, e.next))],
                f, "error writing batch", "write", flushOk)
    ELSE [e |-> [e EXCEPT !.batch = <<>>, !.count = 0, !.next = @ + 1, !.buffer = <<>>],
          f |-> [f EXCEPT !.content = @ \o e.buffer \o Append(e.batch, Record(e, e.next))]]

\* Lines 93-100: the last batch and the return.
ExportFinal(e, f, ok, flushOk) ==
    IF Len(e.batch) = 0 THEN Return(e, f, "nil", "", flushOk)
    ELSE IF ok
    THEN Return([e EXCEPT !.buffer = <<>>, !.batch = <<>>],
                [f EXCEPT !.content = @ \o e.buffer \o e.batch], "nil", "", flushOk)
    ELSE Return([e EXCEPT !.werr = TRUE], f, "error writing final batch", "write", flushOk)

\* What the environment can do to the next step of an export.
ExportOutcomes(e) ==
    IF e.pc = "Rows"
    THEN {[ok |-> TRUE, flushOk |-> fl, row |-> r] :
             fl \in (IF e.buffer = <<>> THEN {TRUE} ELSE BOOLEAN), r \in RowOutcomes(e)}
    ELSE {[ok |-> ok, flushOk |-> fl, row |-> "row"] :
             ok \in BOOLEAN,
             fl \in (IF e.pc \in {"Create"} \/ e.buffer = <<>> THEN {TRUE} ELSE BOOLEAN)}

\* The next step of an export that has not returned.
ExportStep(e, f, o) ==
    IF e.pc = "Create" THEN ExportCreate(e, f, o.ok)
    ELSE IF e.pc = "Header" THEN ExportHeader(e, f, o.ok, o.flushOk)
    ELSE IF e.pc = "Query" THEN ExportQuery(e, f, o.ok, o.flushOk)
    ELSE IF e.pc = "Rows" THEN ExportRow(e, f, o.row, o.flushOk)
    ELSE ExportFinal(e, f, o.ok, o.flushOk)

\* The CSV records of a table: the header, then the rows in result-set order.
CsvOf(columns, rowCount) ==
    <<columns>> \o [i \in 1..rowCount |-> [c \in 1..Len(columns) |-> formatValue(CellAt(i, c))]]

\* A caller constructs the exporter of a table.
ExpNew ==
    /\ exp.pc = "Idle"
    /\ \E t \in ExportTables :
          exp' = NewTableExporter(t.name, t.columns, OutputDir, t.n)
    /\ UNCHANGED expFile
    /\ UNCHANGED <<parseVars, mainVars, dbVars, fnVars, runVars>>

ExpCreate ==
    /\ exp.pc = "Create"
    /\ \E ok \in BOOLEAN :
       \E r \in {ExportCreate(exp, expFile, ok)} :
          exp' = r.e /\ expFile' = r.f
    /\ UNCHANGED <<parseVars, mainVars, dbVars, fnVars, runVars>>

ExpHeader ==
    /\ exp.pc = "Header"
    /\ \E ok \in BOOLEAN :
       \E r \in {ExportHeader(exp, expFile, ok, TRUE)} :
          exp' = r.e /\ expFile' = r.f
    /\ UNCHANGED <<parseVars, mainVars, dbVars, fnVars, runVars>>

ExpQuery ==
    /\ exp.pc = "Query"
    /\ \E ok, flushOk \in BOOLEAN :
       \E r \in {ExportQuery(exp, expFile, ok, flushOk)} :
          exp' = r.e /\ expFile' = r.f
    /\ UNCHANGED <<parseVars, mainVars, dbVars, fnVars, runVars>>

ExpRow ==
    /\ exp.pc = "Rows"
    /\ \E outcome \in RowOutcomes(exp), flushOk \in BOOLEAN :
       \E r \in {ExportRow(exp, expFile, outcome, flushOk)} :
          exp' = r.e /\ expFile' = r.f
    /\ UNCHANGED <<parseVars, mainVars, dbVars, fnVars, runVars>>

ExpFinal ==
    /\ exp.pc = "Final"
    /\ \E ok, flushOk \in BOOLEAN :
       \E r \in {ExportFinal(exp, expFile, ok, flushOk)} :
          exp' = r.e /\ expFile' = r.f
    /\ UNCHANGED <<parseVars, mainVars, dbVars, fnVars, runVars>>

NextExport == ExpNew \/ ExpCreate \/ ExpHeader \/ ExpQuery \/ ExpRow \/ ExpFinal

(***************************************************************************)
(* main: the export of the selected tables, one goroutine per table.       *)
(***************************************************************************)
\* The tables of the database main is connected to.
Database ==
    <<[name |-> "users", columns |-> <<"id", "name">>, n |-> 2],
      [name |-> "orders", columns |-> <<"id">>, n |-> 1],
      [name |-> "items", columns |-> <<"sku", "qty">>, n |-> 0]>>

DatabaseNames == {Database[i].name : i \in 1..Len(Database)}

TableNamed(name) == CHOOSE t \in {Database[i] : i \in 1..Len(Database)} : t.name = name

\* What cli.SelectTables can return: the tables the user ticked, at least one, each
\* once.
Selections ==
    {s \in UNION {[1..k -> DatabaseNames] : k \in 1..MaxTables} :
        \A i, j \in 1..Len(s) : i # j => s[i] # s[j]}

Paths == {FilepathJoin(OutputDir, OutputFile(name)) : name \in DatabaseNames}

IdleJob == [pc |-> "Idle", exp |-> IdleExport, err |-> "", printed |-> FALSE]

\* make(chan error, len(selectedTables)): the capacity of the channel.
errChanCapNone(n) == 0

errChanCap(n) == n

\* Lines 90-93: a received error that is not nil is printed.
logPrintfNothing(log, err) == log

logPrintf(log, err) == IF err # "" THEN Append(log, err) ELSE log

\* Lines 90-93: hasErrors after one error has been received.
hasErrorsKept(has, err) == has

hasErrorsAfter(has, err) == has \/ err # ""

\* Lines 35-54: the tables are selected, the output directory is made, and the
\* channel is created; any failure here ends the program (log.Fatalf).
Setup ==
    /\ mainPc = "Setup"
    /\ \E ok \in BOOLEAN :
          IF ok
          THEN \E s \in Selections :
                  /\ selectedTables' = s
                  /\ errChan' = [buf |-> <<>>, cap |-> errChanCap(Len(s)), closed |-> FALSE]
                  /\ mainPc' = "Spawn"
          ELSE /\ mainPc' = "Fatal"
               /\ UNCHANGED <<selectedTables, errChan>>
    /\ UNCHANGED <<spawned, jobs, fs, wgCount, hasErrors, successPrinted>>
    /\ UNCHANGED errLog
    /\ UNCHANGED <<parseVars, exportVars, dbVars, fnVars, runVars>>

\* Lines 57-81, one turn of the loop: wg.Add(1) and the go statement.  After the
\* last turn main is at wg.Wait().
Spawn ==
    /\ mainPc = "Spawn"
    /\ spawned < Len(selectedTables)
    /\ wgCount' = wgCount + 1
    /\ jobs' = [jobs EXCEPT ![selectedTables[spawned + 1]].pc = "GetColumns"]
    /\ spawned' = spawned + 1
    /\ mainPc' = IF spawned + 1 = Len(selectedTables) THEN "Wait" ELSE "Spawn"
    /\ UNCHANGED <<selectedTables, fs, errChan, hasErrors, successPrinted>>
    /\ UNCHANGED errLog
    /\ UNCHANGED <<parseVars, exportVars, dbVars, fnVars, runVars>>

\* Lines 62-70: the columns of the table are resolved and its exporter is made.
JobGetColumns(t) ==
    /\ jobs[t].pc = "GetColumns"
    /\ \E ok \in BOOLEAN :
          jobs' = [jobs EXCEPT
                      ![t] = IF ok
                             THEN [@ EXCEPT !.pc = "Export",
                                            !.exp = NewTableExporter(t, TableNamed(t).columns,
                                                                     OutputDir, TableNamed(t).n)]
                             ELSE [@ EXCEPT !.pc = "Send",
                                            !.err = "error getting columns for table " \o t]]
    /\ UNCHANGED <<mainPc, selectedTables, spawned, fs, errChan, wgCount, hasErrors,
                   successPrinted>>
    /\ UNCHANGED errLog
    /\ UNCHANGED <<parseVars, exportVars, dbVars, fnVars, runVars>>

\* Line 73: one step of exp.Export(); when it has returned, the job goes on to
\* report the error or to print its success.
JobExport(t) ==
    /\ jobs[t].pc = "Export"
    /\ \E o \in ExportOutcomes(jobs[t].exp) :
       \E r \in {ExportStep(jobs[t].exp, fs[jobs[t].exp.output], o)} :
          /\ fs' = [fs EXCEPT ![jobs[t].exp.output] = r.f]
          /\ jobs' = [jobs EXCEPT
                         ![t] = IF r.e.pc # "Returned" THEN [@ EXCEPT !.exp = r.e]
                                ELSE IF r.e.ret = "nil" THEN [@ EXCEPT !.exp = r.e, !.pc = "Print"]
                                ELSE [@ EXCEPT !.exp = r.e,
                                               !.pc = "Send",
                                               !.err = "error exporting table " \o t]]
    /\ UNCHANGED <<mainPc, selectedTables, spawned, errChan, wgCount, hasErrors,
                   successPrinted>>
    /\ UNCHANGED errLog
    /\ UNCHANGED <<parseVars, exportVars, dbVars, fnVars, runVars>>

\* Lines 65-66 and 74-75: the error is sent, the job returns and wg.Done() runs.
\* The send blocks while the channel is full.
JobSend(t) ==
    /\ jobs[t].pc = "Send"
    /\ Len(errChan.buf) < errChan.cap
    /\ errChan' = [errChan EXCEPT !.buf = Append(@, jobs[t].err)]
    /\ jobs' = [jobs EXCEPT ![t].pc = "Done"]
    /\ wgCount' = wgCount - 1
    /\ UNCHANGED <<mainPc, selectedTables, spawned, fs, hasErrors, successPrinted>>
    /\ UNCHANGED errLog
    /\ UNCHANGED <<parseVars, exportVars, dbVars, fnVars, runVars>>

\* Lines 78-80: the job prints its success, returns, and wg.Done() runs.
JobPrint(t) ==
    /\ jobs[t].pc = "Print"
    /\ jobs' = [jobs EXCEPT ![t].pc = "Done", ![t].printed = TRUE]
    /\ wgCount' = wgCount - 1
    /\ UNCHANGED <<mainPc, selectedTables, spawned, fs, errChan, hasErrors, successPrinted>>
    /\ UNCHANGED errLog
    /\ UNCHANGED <<parseVars, exportVars, dbVars, fnVars, runVars>>

\* Lines 84-88: wg.Wait() returns once the counter is zero; the channel is closed.
Wait ==
    /\ mainPc = "Wait"
    /\ wgCount = 0
    /\ errChan' = [errChan EXCEPT !.closed = TRUE]
    /\ hasErrors' = FALSE
    /\ mainPc' = "Drain"
    /\ UNCHANGED <<selectedTables, spawned, jobs, fs, wgCount, successPrinted>>
    /\ UNCHANGED errLog
    /\ UNCHANGED <<parseVars, exportVars, dbVars, fnVars, runVars>>

\* Lines 89-94, one turn of the loop over the channel.
Drain ==
    /\ mainPc = "Drain"
    /\ Len(errChan.buf) > 0
    /\ hasErrors' = hasErrorsAfter(hasErrors, Head(errChan.buf))
    /\ errChan' = [errChan EXCEPT !.buf = Tail(@)]
    /\ errLog' = logPrintf(errLog, Head(errChan.buf))
    /\ UNCHANGED <<mainPc, selectedTables, spawned, jobs, fs, wgCount, successPrinted>>
    /\ UNCHANGED <<parseVars, exportVars, dbVars, fnVars, runVars>>

\* Lines 96-98: the loop over the closed channel has ended.
Report ==
    /\ mainPc = "Drain"
    /\ Len(errChan.buf) = 0
    /\ errChan.closed
    /\ successPrinted' = ~hasErrors
    /\ mainPc' = "Done"
    /\ UNCHANGED <<selectedTables, spawned, jobs, fs, errChan, wgCount, hasErrors>>
    /\ UNCHANGED errLog
    /\ UNCHANGED <<parseVars, exportVars, dbVars, fnVars, runVars>>

NextMain ==
    \/ Setup
    \/ Spawn
    \/ \E t \in DatabaseNames : JobGetColumns(t)
    \/ \E t \in DatabaseNames : JobExport(t)
    \/ \E t \in DatabaseNames : JobSend(t)
    \/ \E t \in DatabaseNames : JobPrint(t)
    \/ Wait
    \/ Drain
    \/ Report

(***************************************************************************)
(* The database helpers.  What a call did: the error it returned, whether  *)
(* sql.Open gave a handle, and how many connections it had the driver open *)
(* and how many queries it issued.                                         *)
(***************************************************************************)
MySQL == "mysql"

Postgres == "postgres"

SQLite == "sqlite3"

\* The types a caller may pass: DBType is a string.
DBTypes == {MySQL, Postgres, SQLite, "mariadb", "oracle", ""}

ConnectionURLs == {"", "user:pw@tcp(localhost:3306)/db"}

\* The drivers the imports register with database/sql.
RegisteredDrivers == {"mysql", "postgres", "sqlite3"}

\* sql.Open(driverName, dsn): a handle, unless the driver is not registered.
sqlOpenAny(driverName) == TRUE

sqlOpen(driverName) == driverName \in RegisteredDrivers

Call(op, type, url, err, handle, connections, queries) ==
    [op |-> op, type |-> type, url |-> url, err |-> err, handle |-> handle,
     connections |-> connections, queries |-> queries]

NoCall == Call("", "", "", "", FALSE, 0, 0)

Connect(type, url, pingOk) ==
    IF url = "" /\ type \notin {MySQL, Postgres, SQLite}
    THEN Call("Connect", type, url, "unsupported database type: " \o type, FALSE, 0, 0)
    ELSE IF ~sqlOpen(type)
    THEN Call("Connect", type, url, "error connecting to database", FALSE, 0, 0)
    ELSE IF ~pingOk
    THEN Call("Connect", type, url, "error pinging database", FALSE, 1, 0)
    ELSE Call("Connect", type, url, "", TRUE, 1, 0)

GetTables(type, outcome) ==
    IF type \notin {MySQL, Postgres, SQLite}
    THEN Call("GetTables", type, "", "unsupported database type: " \o type, FALSE, 0, 0)
    ELSE IF outcome = "queryError"
    THEN Call("GetTables", type, "", "error querying tables", FALSE, 1, 1)
    ELSE IF outcome = "scanError"
    THEN Call("GetTables", type, "", "error scanning table name", FALSE, 1, 1)
    ELSE Call("GetTables", type, "", "", FALSE, 1, 1)

GetColumns(type, tableName, outcome) ==
    IF type \notin {MySQL, Postgres, SQLite}
    THEN Call("GetColumns", type, "", "unsupported database type: " \o type, FALSE, 0, 0)
    ELSE IF outcome = "queryError"
    THEN Call("GetColumns", type, "", "error querying columns", FALSE, 1, 1)
    ELSE IF outcome = "scanError"
    THEN Call("GetColumns", type, "", "error scanning column", FALSE, 1, 1)
    ELSE Call("GetColumns", type, "", "", FALSE, 1, 1)

QueryOutcomes == {"ok", "queryError", "scanError"}

CallConnect ==
    /\ dbLog.calls < MaxCalls
    /\ \E type \in DBTypes, url \in ConnectionURLs, pingOk \in BOOLEAN :
          dbLog' = [calls |-> dbLog.calls + 1, last |-> Connect(type, url, pingOk)]
    /\ UNCHANGED <<parseVars, exportVars, mainVars, fnVars, runVars>>

CallGetTables ==
    /\ dbLog.calls < MaxCalls
    /\ \E type \in DBTypes, outcome \in QueryOutcomes :
          dbLog' = [calls |-> dbLog.calls + 1, last |-> GetTables(type, outcome)]
    /\ UNCHANGED <<parseVars, exportVars, mainVars, fnVars, runVars>>

CallGetColumns ==
    /\ dbLog.calls < MaxCalls
    /\ \E type \in DBTypes, tableName \in DatabaseNames, outcome \in QueryOutcomes :
          dbLog' = [calls |-> dbLog.calls + 1, last |-> GetColumns(type, tableName, outcome)]
    /\ UNCHANGED <<parseVars, exportVars, mainVars, fnVars, runVars>>

NextDb == CallConnect \/ CallGetTables \/ CallGetColumns

(***************************************************************************)
(* The conversion functions called on their own.  A call is the function, *)
(* its argument, the kind of argument it is and the result the            *)
(* specification and the tests expect of it (want); the result is the     *)
(* text returned (a boolean as true or false) and, for convertDataTypes,  *)
(* the order in which the rules were ranged over.                         *)
(***************************************************************************)
UpperChar(c) ==
    IF \E i \in DOMAIN LowerMap : LowerMap[i][2] = c
    THEN LowerMap[CHOOSE i \in DOMAIN LowerMap : LowerMap[i][2] = c][1]
    ELSE c

RECURSIVE ToUpper(_)
ToUpper(s0) ==
    Let(s0, LAMBDA s :
        IF Len(s) = 0 THEN ""
        ELSE IF Len(s) = 1 THEN UpperChar(s)
        ELSE Let(Len(s) \div 2, LAMBDA h :
                 ToUpper(SubSeq(s, 1, h)) \o ToUpper(SubSeq(s, h + 1, Len(s)))))

FnInput(fn, arg, kind, want) == [fn |-> fn, arg |-> arg, kind |-> kind, want |-> want]

NoFn == FnInput("", "", "", "")

NoResult == [done |-> FALSE, text |-> "", order |-> <<>>]

\* A type name as written in the table, in upper case, in lower case, and with
\* a capital first letter.
TypeSpellings(name) ==
    {name, ToUpper(name), ToLower(name),
     ToUpper(SubSeq(name, 1, 1)) \o ToLower(SubSeq(name, 2, Len(name)))}

\* No suffix, a length, a precision and a scale.
TypeSuffixes == {"", "(10)", "(10,2)"}

\* A column definition for every name of the conversion table.
TypeInputs ==
    UNION {{FnInput("convertDataTypes", "c " \o name \o suffix \o ",", "type",
                    "c " \o Conversions[k].sqlite \o ",") :
               name \in TypeSpellings(Conversions[k].pg), suffix \in TypeSuffixes} :
           k \in 1..Len(Conversions)}

\* One statement for every skip pattern.
SkipInputs ==
    {FnInput("shouldSkipStatement", stmt, "skip", "true") :
        stmt \in {"SET foreign_key_checks=0;",
                  "ALTER DATABASE d SET timezone TO 'UTC';",
                  "CREATE DATABASE d;",
                  "CREATE SCHEMA s;",
                  "CREATE EXTENSION pgcrypto;",
                  "COMMENT ON TABLE t IS 'x';",
                  "GRANT ALL ON t TO u;",
                  "REVOKE ALL ON t FROM u;",
                  "CREATE TRIGGER tr BEFORE INSERT ON t EXECUTE PROCEDURE f();",
                  "CREATE RULE r AS ON INSERT TO t DO NOTHING;",
                  "CREATE POLICY p ON t;",
                  "SELECT pg_catalog.set_config('search_path', '', false);",
                  "ALTER TABLE t OWNER TO u;",
                  "ALTER TABLE t ALTER COLUMN id ADD GENERATED ALWAYS AS IDENTITY;"}}

CreateInputs ==
    {FnInput("shouldSkipStatement", stmt, "create", "false") :
        stmt \in {"CREATE TABLE users (id INT);",
                  "CREATE TABLE t (id INTEGER PRIMARY KEY, name TEXT);"}}

\* INSERT statements, some of which carry the text of a skip pattern as data.
InsertInputs ==
    {FnInput("shouldSkipStatement", stmt, "insert", "false") :
        stmt \in {"INSERT INTO t VALUES (1, 'x');",
                  "INSERT INTO users (name) VALUES ('SET ');",
                  "INSERT INTO notes VALUES (1, 'CREATE TRIGGER');",
                  "INSERT INTO notes VALUES (2, 'ALTER TABLE t OWNER TO u');"}}

\* Database selection and transaction control.
ControlInputs ==
    {FnInput("shouldSkipStatement", stmt, "control", "true") :
        stmt \in {"USE database_name;", "BEGIN TRANSACTION;", "START TRANSACTION;"}}

\* The lines of TestConvertSyntax and what it wants of them.
SyntaxInputs ==
    {FnInput("convertSyntax", "id INTEGER PRIMARY KEY AUTO_INCREMENT", "syntax",
             "id INTEGER PRIMARY KEY AUTOINCREMENT"),
     FnInput("convertSyntax", "CREATE TABLE test (id INT) ENGINE=InnoDB DEFAULT CHARSET=utf8;",
             "syntax", "CREATE TABLE test (id INT);"),
     FnInput("convertSyntax", "id SERIAL PRIMARY KEY", "syntax",
             "id INTEGER PRIMARY KEY AUTOINCREMENT"),
     FnInput("convertSyntax", "created_at timestamp without time zone", "syntax",
             "created_at DATETIME"),
     FnInput("convertSyntax", "INSERT INTO t VALUES (1);", "plain", "INSERT INTO t VALUES (1);")}

\* ALTER TABLE <t> ADD CONSTRAINT <name> PRIMARY KEY (<cols>), with and without
\* the semicolon, and the statement wanted of it.
PrimaryKeyInputs ==
    {FnInput("convertConstraint",
             "ALTER TABLE " \o t \o " ADD CONSTRAINT " \o name \o " PRIMARY KEY (" \o cols \o ")"
                 \o end,
             "pk",
             "CREATE UNIQUE INDEX IF NOT EXISTS pk_" \o t \o " ON " \o t \o " (" \o cols \o ");") :
        t \in {"orders", "users"}, name \in {"pk_x", "orders_pkey"},
        cols \in {"id", "id, name"}, end \in {"", ";"}}

\* ALTER statements that are none of the three constraint shapes.
AlterInputs ==
    {FnInput("convertSyntax", stmt, "alter", "") :
        stmt \in {"ALTER TABLE t ADD CONSTRAINT c CHECK (x > 0);",
                  "ALTER TABLE t OWNER TO u;",
                  "ALTER TABLE t ADD COLUMN x INT;",
                  "ALTER TABLE t RENAME TO u;",
                  "ALTER TABLE ONLY t ALTER COLUMN id SET DEFAULT 0;"}}

FnInputs ==
    TypeInputs \cup SkipInputs \cup CreateInputs \cup InsertInputs \cup ControlInputs
        \cup SyntaxInputs \cup PrimaryKeyInputs \cup AlterInputs

convertDataTypesOf[line \in STRING, order \in RuleOrders] == convertDataTypes(line, order)

\* strconv.FormatBool.
FormatBool(b) == IF b THEN "true" ELSE "false"

Result(text, order) == [done |-> TRUE, text |-> text, order |-> order]

\* convertDataTypes(line): the rules are ranged over in one of the map's orders.
CallConvertDataTypes ==
    /\ fnIn.fn = "convertDataTypes"
    /\ ~fnOut.done
    /\ \E order \in RuleOrders : fnOut' = Result(convertDataTypesOf[fnIn.arg, order], order)
    /\ UNCHANGED <<fnIn, parseVars, exportVars, mainVars, dbVars, runVars>>

CallShouldSkipStatement ==
    /\ fnIn.fn = "shouldSkipStatement"
    /\ ~fnOut.done
    /\ fnOut' = Result(FormatBool(shouldSkipStatement(fnIn.arg)), <<>>)
    /\ UNCHANGED <<fnIn, parseVars, exportVars, mainVars, dbVars, runVars>>

CallConvertSyntax ==
    /\ fnIn.fn = "convertSyntax"
    /\ ~fnOut.done
    /\ fnOut' = Result(convertSyntax(fnIn.arg), <<>>)
    /\ UNCHANGED <<fnIn, parseVars, exportVars, mainVars, dbVars, runVars>>

CallConvertConstraint ==
    /\ fnIn.fn = "convertConstraint"
    /\ ~fnOut.done
    /\ fnOut' = Result(convertConstraint(fnIn.arg), <<>>)
    /\ UNCHANGED <<fnIn, parseVars, exportVars, mainVars, dbVars, runVars>>

NextFn ==
    CallConvertDataTypes \/ CallShouldSkipStatement \/ CallConvertSyntax \/ CallConvertConstraint

(***************************************************************************)
(* The program from its start to its end: cli.DatabaseConfig, then main's  *)
(* steps up to the export, then the return of main with its deferred       *)
(* calls, or log.Fatalf, which ends the process at once.  run holds the    *)
(* configuration (connection, type, filePath), the staging file this run   *)
(* created (temp, "" if none), whether the removal of config.FilePath has  *)
(* been deferred, whether the database handle is open, the database files  *)
(* on disk, and how the process ended (exit).                              *)
(***************************************************************************)
\* cli.go:20, the connection types the first prompt offers.
ConnectionTypes == {"Direct Connection", "Connection String", "SQL Dump File"}

\* The SQLite database files of the user, by the path the user types.
UserFiles == {"data.db", "sql_import_2023.db", "backup/my_sql_import_copy.sqlite"}

IdleRun ==
    run = [pc |-> "Idle", connection |-> "", type |-> "", filePath |-> "", temp |-> "",
           removeDeferred |-> FALSE, open |-> FALSE, disk |-> UserFiles, exit |-> ""]

\* log.Fatalf(msg): os.Exit(1); no deferred call runs.
Fatalf(r, msg) == [r EXCEPT !.pc = "Exited", !.exit = msg]

\* cli.DatabaseConfig for a dump file: the configuration of the staging store
\* ParseToSQLite has produced, which is now on disk.
DumpConfig(r) ==
    [r EXCEPT !.pc = "Defer", !.connection = "SQL Dump File", !.type = SQLite,
              !.filePath = TempPath, !.temp = TempPath, !.disk = @ \cup {TempPath}]

\* main.go:23, whether the removal of config.FilePath is deferred.
deferRemove(type, filePath) == type = SQLite /\ Contains(filePath, "sql_import_")

\* main.go:17-20 with cli.go:12-58: a prompt fails, or the dump is transpiled
\* (ParseToSQLite removes the staging file when it fails).
ConfigDump ==
    /\ run.pc = "Config"
    /\ \E outcome \in {"prompt", "parse", "ok"} :
          run' = IF outcome = "ok" THEN DumpConfig(run)
                 ELSE Fatalf([run EXCEPT !.connection = "SQL Dump File"],
                             "Error getting database configuration: " \o outcome)
    /\ UNCHANGED <<parseVars, exportVars, mainVars, dbVars, fnVars>>

\* main.go:17-20 with cli.go:60-84: a connection string for a database type.
ConfigConnectionString ==
    /\ run.pc = "Config"
    /\ \E type \in DBTypes :
          run' = [run EXCEPT !.pc = "Defer", !.connection = "Connection String", !.type = type]
    /\ UNCHANGED <<parseVars, exportVars, mainVars, dbVars, fnVars>>

\* main.go:17-20 with cli.go:60-70 and 86-93 (a SQLite file path) or 94 and
\* after (host, port, user, password and name).
ConfigDirect ==
    /\ run.pc = "Config"
    /\ \E type \in DBTypes, path \in UserFiles :
          run' = [run EXCEPT !.pc = "Defer", !.connection = "Direct Connection", !.type = type,
                             !.filePath = IF type = SQLite THEN path ELSE ""]
    /\ UNCHANGED <<parseVars, exportVars, mainVars, dbVars, fnVars>>

\* main.go:22-25.
DeferRemove ==
    /\ run.pc = "Defer"
    /\ run' = [run EXCEPT !.pc = "Connect",
                          !.removeDeferred = deferRemove(run.type, run.filePath)]
    /\ UNCHANGED <<parseVars, exportVars, mainVars, dbVars, fnVars>>

\* main.go:27-32.
RunConnect ==
    /\ run.pc = "Connect"
    /\ \E ok \in BOOLEAN :
          run' = IF ok THEN [run EXCEPT !.pc = "SelectTables", !.open = TRUE]
                 ELSE Fatalf(run, "Error connecting to database")
    /\ UNCHANGED <<parseVars, exportVars, mainVars, dbVars, fnVars>>

\* main.go:34-38.
RunSelectTables ==
    /\ run.pc = "SelectTables"
    /\ \E ok \in BOOLEAN :
          run' = IF ok THEN [run EXCEPT !.pc = "SelectOutputDir"]
                 ELSE Fatalf(run, "Error selecting tables")
    /\ UNCHANGED <<parseVars, exportVars, mainVars, dbVars, fnVars>>

\* main.go:40-44.
RunSelectOutputDir ==
    /\ run.pc = "SelectOutputDir"
    /\ \E ok \in BOOLEAN :
          run' = IF ok THEN [run EXCEPT !.pc = "MkdirAll"]
                 ELSE Fatalf(run, "Error selecting output directory")
    /\ UNCHANGED <<parseVars, exportVars, mainVars, dbVars, fnVars>>

\* main.go:46-49.
RunMkdirAll ==
    /\ run.pc = "MkdirAll"
    /\ \E ok \in BOOLEAN :
          run' = IF ok THEN [run EXCEPT !.pc = "Export"]
                 ELSE Fatalf(run, "Error creating output directory")
    /\ UNCHANGED <<parseVars, exportVars, mainVars, dbVars, fnVars>>

\* main.go:51-98: the exports, whatever their results; main returns.
RunExport ==
    /\ run.pc = "Export"
    /\ run' = [run EXCEPT !.pc = "Close"]
    /\ UNCHANGED <<parseVars, exportVars, mainVars, dbVars, fnVars>>

\* The deferred db.Close() of line 32 runs first.
RunClose ==
    /\ run.pc = "Close"
    /\ run' = [run EXCEPT !.pc = "Remove", !.open = FALSE]
    /\ UNCHANGED <<parseVars, exportVars, mainVars, dbVars, fnVars>>

\* The deferred os.Remove(config.FilePath) of line 24 runs last, if deferred.
RunRemove ==
    /\ run.pc = "Remove"
    /\ run' = [run EXCEPT !.pc = "Exited", !.exit = "return",
                          !.disk = IF run.removeDeferred THEN @ \ {run.filePath} ELSE @]
    /\ UNCHANGED <<parseVars, exportVars, mainVars, dbVars, fnVars>>

NextRun ==
    \/ ConfigDump
    \/ ConfigConnectionString
    \/ ConfigDirect
    \/ DeferRemove
    \/ RunConnect
    \/ RunSelectTables
    \/ RunSelectOutputDir
    \/ RunMkdirAll
    \/ RunExport
    \/ RunClose
    \/ RunRemove

(***************************************************************************)
(* The specifications: each component runs from its initial state while    *)
(* the others stay idle.                                                   *)
(***************************************************************************)
IdleParse ==
    /\ scenario = NoScenario
    /\ pos = 1
    /\ tmpExists = FALSE
    /\ tmpCreated = FALSE
    /\ dbOpen = FALSE
    /\ staging = EmptyStore
    /\ currentStatement = ""
    /\ inCopy = FALSE
    /\ copyData = <<>>
    /\ currentTable = ""
    /\ inFunction = FALSE
    /\ inCreateTable = FALSE
    /\ retPath = ""
    /\ retErr = ""
    /\ fault = "none"
    /\ execLog = <<>>
    /\ copyLog = <<>>
    /\ lastConv = NoConv

IdleExportVars == exp = IdleExport /\ expFile = NoFile

IdleMain ==
    /\ selectedTables = <<>>
    /\ spawned = 0
    /\ jobs = [t \in DatabaseNames |-> IdleJob]
    /\ fs = [p \in Paths |-> NoFile]
    /\ errChan = [buf |-> <<>>, cap |-> 0, closed |-> FALSE]
    /\ errLog = <<>>
    /\ wgCount = 0
    /\ hasErrors = FALSE
    /\ successPrinted = FALSE

IdleDb == dbLog = [calls |-> 0, last |-> NoCall]

IdleFn == fnIn = NoFn /\ fnOut = NoResult

\* No parser has been constructed.
NoParser == dbType = ""

\* The types NewSQLDumpParser is given: those of the dump dialects, and others.
ParserTypes == {MySQL, Postgres, SQLite, "oracle"}

\* NewSQLDumpParser(filePath, Postgres), then ParseToSQLite.
InitParse ==
    /\ parsePc = "CreateTemp" /\ dbType = Postgres /\ IdleParse
    /\ IdleExportVars /\ mainPc = "Idle" /\ IdleMain /\ IdleDb /\ IdleRun /\ IdleFn

\* NewSQLDumpParser(filePath, dbType) for any type, then ParseToSQLite.
InitDialect ==
    /\ parsePc = "CreateTemp" /\ dbType \in ParserTypes /\ IdleParse
    /\ IdleExportVars /\ mainPc = "Idle" /\ IdleMain /\ IdleDb /\ IdleRun /\ IdleFn

\* ParseToSQLite has created the staging store and opened a dump that holds two
\* bulk-load blocks.
InitCopy ==
    /\ parsePc = "Scan" /\ dbType = Postgres
    /\ scenario \in BlockScenarios
    /\ pos = 1
    /\ tmpExists = TRUE
    /\ tmpCreated = TRUE
    /\ dbOpen = TRUE
    /\ staging = EmptyStore
    /\ currentStatement = ""
    /\ inCopy = FALSE
    /\ copyData = <<>>
    /\ currentTable = ""
    /\ inFunction = FALSE
    /\ inCreateTable = FALSE
    /\ retPath = ""
    /\ retErr = ""
    /\ fault = "none"
    /\ execLog = <<>>
    /\ copyLog = <<>>
    /\ lastConv = NoConv
    /\ IdleExportVars /\ mainPc = "Idle" /\ IdleMain /\ IdleDb /\ IdleRun /\ IdleFn

\* No exporter has been constructed; the output path is free, or holds the file
\* of an earlier run.
InitExport ==
    /\ parsePc = "Idle" /\ NoParser /\ IdleParse
    /\ exp = IdleExport /\ expFile \in {NoFile, StaleFile} /\ mainPc = "Idle" /\ IdleMain /\ IdleDb /\ IdleRun /\ IdleFn

InitMain ==
    /\ parsePc = "Idle" /\ NoParser /\ IdleParse
    /\ IdleExportVars /\ mainPc = "Setup" /\ IdleMain /\ IdleDb /\ IdleRun /\ IdleFn

InitDb ==
    /\ parsePc = "Idle" /\ NoParser /\ IdleParse
    /\ IdleExportVars /\ mainPc = "Idle" /\ IdleMain /\ IdleDb /\ IdleRun /\ IdleFn

\* A conversion function called on an argument drawn from its inputs.
InitFn ==
    /\ parsePc = "Idle" /\ NoParser /\ IdleParse
    /\ IdleExportVars /\ mainPc = "Idle" /\ IdleMain /\ IdleDb /\ IdleRun
    /\ fnIn \in FnInputs /\ fnOut = NoResult

SpecParse == InitParse /\ [][NextParse]_vars

SpecDialect == InitDialect /\ [][NextParse]_vars

SpecCopy == InitCopy /\ [][NextCopy]_vars

SpecFn == InitFn /\ [][NextFn]_vars

SpecExport == InitExport /\ [][NextExport]_vars

SpecMain == InitMain /\ [][NextMain]_vars

\* The Go scheduler runs every goroutine that can take a step.
SpecMainFair == SpecMain /\ WF_vars(NextMain)

SpecDb == InitDb /\ [][NextDb]_vars

\* The program is started.
InitRun ==
    /\ parsePc = "Idle" /\ NoParser /\ IdleParse
    /\ IdleExportVars /\ mainPc = "Idle" /\ IdleMain /\ IdleDb /\ IdleFn
    /\ run = [pc |-> "Config", connection |-> "", type |-> "", filePath |-> "", temp |-> "",
              removeDeferred |-> FALSE, open |-> FALSE, disk |-> UserFiles, exit |-> ""]

SpecRun == InitRun /\ [][NextRun]_vars

(***************************************************************************)
(* Properties.                                                             *)
(***************************************************************************)
Returned == parsePc = "Returned"

\* C1: ParseToSQLite never fails because of SQL execution.  A call that met no
\* fatal I/O error has read every line of the dump and returns a non-empty
\* staging path with a nil error, however many executions and bulk-load
\* insertions failed; in a dump made of a rejected statement, a bulk-load block
\* and a table definition, all three are attempted.
ExecFailuresNeverFatal ==
    Returned /\ fault = "none" =>
        /\ retErr = ""
        /\ retPath # ""
        /\ pos = Len(scenario.lines) + 1
        /\ scenario.kind = "failing" => Len(execLog) = 2 /\ Len(copyLog) = 1

\* A call that returned after a rejected statement and a failed bulk-load
\* insertion, and executed the statement that follows them.
ExecFailuresWitness ==
    /\ Returned
    /\ fault = "none"
    /\ scenario.kind = "failing"
    /\ Len(execLog) = 2
    /\ Len(copyLog) = 1
    /\ ~execLog[1].ok
    /\ ~copyLog[1].ok
    /\ execLog[2].ok
    /\ retPath = TempPath
    /\ retErr = ""

\* C2: when the staging database cannot be created or connected to, the dump
\* cannot be opened, or the scanner reports a read error, ParseToSQLite returns
\* an empty path with a non-nil error and no staging file is left behind.
FatalFaultsCleanUp ==
    Returned /\ fault # "none" => retPath = "" /\ retErr # "" /\ ~tmpExists

\* A read error after lines have been processed: the staging file had been
\* created and is gone.
FatalFaultsWitness ==
    /\ Returned
    /\ fault = "Scan"
    /\ pos > 1
    /\ tmpCreated
    /\ ~tmpExists
    /\ retPath = ""
    /\ retErr # ""

\* C3: for a dump of one malformed and one well-formed CREATE TABLE statement,
\* in either order, the staging store holds exactly the table of the well-formed
\* statement, and the call returns success.
PairYieldsWellFormedTable ==
    Returned /\ fault = "none" /\ scenario.kind = "pair" =>
        /\ staging.tables = scenario.good
        /\ retErr = ""
        /\ retPath # ""

\* The rows of a bulk-load block that have as many fields as the table has
\* columns, in the order of the block.
MatchingRows(sc) ==
    Let(ColumnsOf([tables |-> sc.good, rows |-> <<>>], sc.target), LAMBDA columns :
    Let(SortedSeq({i \in 1..Len(sc.rawRows) :
                      Len(Split(sc.rawRows[i], "\t")) = Len(columns)}), LAMBDA kept :
        [i \in 1..Len(kept) |->
            [table |-> sc.target, vals |-> parseCopyLine(sc.rawRows[kept[i]])]]))

\* C4: after a bulk-load block into an existing table, the store holds every
\* data row whose field count equals the table's column count and no other row.
CopyRowsByFieldCount ==
    Returned /\ fault = "none" /\ scenario.kind = "copy" =>
        /\ Len(staging.rows) = Len(MatchingRows(scenario))
        /\ \A i \in 1..Len(staging.rows) : staging.rows[i] = MatchingRows(scenario)[i]

\* C5: an Export that returns nil has produced the header followed by the N rows
\* of the table in result-set order, each with one field per column, null as
\* the empty string, bytes as their text, anything else in its default form.
SuccessfulExportIsComplete ==
    exp.pc = "Returned" /\ exp.ret = "nil" =>
        /\ Len(expFile.content) = exp.rowCount + 1
        /\ expFile.content = CsvOf(exp.columns, exp.rowCount)

\* C6: an Export during which an error occurred (creating the file, writing or
\* flushing records, issuing the query, iterating over or scanning the rows)
\* returns a non-nil error, and the file it created is still there.
ExportErrorsAreReturned ==
    exp.pc = "Returned" /\ exp.failed # "" =>
        /\ exp.ret # "nil"
        /\ exp.created => expFile.exists

Selected == {selectedTables[i] : i \in 1..Len(selectedTables)}

\* C7: once main starts the export jobs, every selected table's job runs to its
\* end and main gets past the join, whatever the outcome of the other jobs.
AllJobsComplete ==
    (mainPc = "Spawn") ~> (mainPc = "Done" /\ \A t \in Selected : jobs[t].pc = "Done")

\* main is past the join after one job failed and a sibling exported its table.
AllJobsCompleteWitness ==
    /\ mainPc = "Done"
    /\ \E t1, t2 \in Selected :
          /\ jobs[t1].pc = "Done"
          /\ jobs[t1].err # ""
          /\ jobs[t2].pc = "Done"
          /\ jobs[t2].printed

\* C8: the jobs of distinct tables write distinct files, a file is written by
\* one job only, and the file of a job that met no error holds exactly the header
\* and the rows of its table, whatever the other jobs do and whenever they end.
ExportsAreIsolated ==
    /\ \A p \in Paths : Cardinality(fs[p].writers) <= 1
    /\ \A t1, t2 \in Selected :
          t1 # t2 /\ jobs[t1].exp.pc # "Idle" /\ jobs[t2].exp.pc # "Idle"
              => jobs[t1].exp.output # jobs[t2].exp.output
    /\ \A t \in Selected :
          jobs[t].pc = "Done" /\ jobs[t].err = "" /\ jobs[t].exp.failed = ""
              => /\ fs[jobs[t].exp.output].writers = {t}
                 /\ fs[jobs[t].exp.output].content
                        = CsvOf(TableNamed(t).columns, TableNamed(t).n)

\* Two jobs have ended: the query of one failed, the file of the other is complete.
ExportsAreIsolatedWitness ==
    \E t1, t2 \in Selected :
        /\ jobs[t1].pc = "Done"
        /\ jobs[t1].exp.failed = "query"
        /\ jobs[t2].pc = "Done"
        /\ jobs[t2].err = ""
        /\ jobs[t2].exp.failed = ""
        /\ Len(fs[jobs[t2].exp.output].content) = TableNamed(t2).n + 1
        /\ TableNamed(t2).n > 0

\* C9: main reports overall success exactly when no job reported an error.
SuccessIffNoJobError ==
    mainPc = "Done" => (successPrinted <=> \A t \in Selected : jobs[t].err = "")

\* Several jobs, none of which reported an error, and the report of success.
SuccessIffNoJobErrorWitness ==
    /\ mainPc = "Done"
    /\ successPrinted
    /\ Len(selectedTables) > 1
    /\ \A t \in Selected : jobs[t].printed

\* C10: Connect, GetTables and GetColumns called with a type other than mysql,
\* postgres and sqlite3 return an error, have no connection opened and issue no
\* query.
UnsupportedTypeFailsAtOnce ==
    dbLog.last.op # "" /\ dbLog.last.type \notin {MySQL, Postgres, SQLite} =>
        /\ dbLog.last.err # ""
        /\ ~dbLog.last.handle
        /\ dbLog.last.connections = 0
        /\ dbLog.last.queries = 0

\* Connect with a connection URL and a type no driver is registered for.
UnsupportedTypeWitness ==
    /\ dbLog.last.op = "Connect"
    /\ dbLog.last.type = "mariadb"
    /\ dbLog.last.url # ""
    /\ dbLog.last.err # ""
    /\ dbLog.last.connections = 0

\* C11: a transpile requested with a source type other than those of the MySQL
\* and PostgreSQL dump dialects fails at once: no staging file is created, no
\* line of the dump is read or executed, and the call returns an error.
UnsupportedDialectFailsAtOnce ==
    dbType \notin {MySQL, Postgres} =>
        /\ ~tmpCreated
        /\ pos = 1
        /\ execLog = <<>>
        /\ copyLog = <<>>
        /\ Returned => retErr # "" /\ retPath = ""

\* C12: for every name of the conversion table, in any letter case and with or
\* without a parenthesized suffix of one or two numbers, convertDataTypes leaves
\* exactly the target type of that name in the place of the name and its suffix.
TypeNamesConvertToTarget ==
    fnOut.done /\ fnIn.kind = "type" => fnOut.text = fnIn.want

\* C13: the result of convertDataTypes on a line is the same for every order
\* in which the rules are applied.
ConversionIsOrderInsensitive ==
    fnOut.done /\ fnIn.fn = "convertDataTypes" =>
        \A order \in RuleOrders : convertDataTypesOf[fnIn.arg, order] = fnOut.text

\* C14: shouldSkipStatement is true of every statement that matches a skip
\* pattern, and false of every ordinary CREATE TABLE statement and of every
\* ordinary INSERT statement, whatever data the INSERT carries.
SkipPatternsClassified ==
    fnOut.done /\ fnIn.kind \in {"skip", "create", "insert"} => fnOut.text = fnIn.want

\* C15: shouldSkipStatement is true of the statements that begin with USE, BEGIN
\* TRANSACTION or START TRANSACTION.
ControlStatementsSkipped ==
    fnOut.done /\ fnIn.kind = "control" => fnOut.text = "true"

\* C16: convertSyntax turns AUTO_INCREMENT into AUTOINCREMENT, removes the
\* ENGINE= and DEFAULT CHARSET= table options, turns SERIAL into INTEGER with
\* AUTOINCREMENT and timestamp without time zone into DATETIME, and keeps the
\* rest of the line.
SyntaxRulesApplied ==
    fnOut.done /\ fnIn.kind \in {"syntax", "plain"} => TrimSpace(fnOut.text) = fnIn.want

\* C17: a line ALTER TABLE <t> ADD CONSTRAINT <name> PRIMARY KEY (<cols>) is
\* converted to the one statement CREATE UNIQUE INDEX IF NOT EXISTS pk_<t> ON
\* <t> (<cols>); whatever the name of the constraint, and the same statement at
\* every call.
PrimaryKeyBecomesUniqueIndex ==
    fnOut.done /\ fnIn.kind = "pk" =>
        /\ fnOut.text = fnIn.want
        /\ fnOut.text = convertConstraint(fnIn.arg)
        /\ HasPrefix(fnOut.text, "CREATE UNIQUE INDEX IF NOT EXISTS pk_")

\* The primary key of orders, declared under the name orders_pkey, converted.
PrimaryKeyWitness ==
    /\ fnOut.done
    /\ fnIn.fn = "convertConstraint"
    /\ fnIn.arg = "ALTER TABLE orders ADD CONSTRAINT orders_pkey PRIMARY KEY (id, name);"
    /\ fnOut.text = "CREATE UNIQUE INDEX IF NOT EXISTS pk_orders ON orders (id, name);"

\* C18: at every point of a pass at most one of the bulk-load, create-table and
\* function-body flags is set.
OneParseModeActive ==
    /\ ~(inCopy /\ inCreateTable)
    /\ ~(inFunction /\ inCopy)
    /\ ~(inFunction /\ inCreateTable)

\* C19: every line of a table definition (its header, its column lines and its
\* closing line) goes through type conversion, and none goes through
\* convertSyntax.
TableLinesTypedNotSyntaxed ==
    lastConv.inTable => lastConv.typed /\ ~lastConv.syntaxed

\* C20: no line of a function definition is part of the pending statement or of
\* an executed statement, and the function-body flag stays set until the last
\* line of the definition has been read.
FunctionLinesAreInert ==
    scenario.kind = "function" =>
        /\ \A i \in 1..Len(scenario.rawRows) :
              /\ ~Contains(currentStatement, scenario.rawRows[i])
              /\ \A j \in 1..Len(execLog) : ~Contains(execLog[j].stmt, scenario.rawRows[i])
        /\ pos \in 2..Len(scenario.rawRows) => inFunction

\* The index of the bulk-load directive in the lines of a verbatim scenario.
DirectiveAt == Len(CopyTableLines) + 1

\* C21: in bulk-load mode every line up to the terminator joins the batch as it
\* stands in the file: after the directive and k data lines the batch is the
\* first k data lines and the mode is still bulk-load, and the block handed to
\* insertCopyData on the terminator is the data lines of the file.
BulkLoadLinesVerbatim ==
    scenario.kind = "verbatim" /\ parsePc = "Scan" /\ pos > DirectiveAt =>
        IF pos <= DirectiveAt + Len(scenario.rawRows) + 1
        THEN /\ inCopy
             /\ ~inFunction
             /\ copyData = SubSeq(scenario.rawRows, 1, pos - DirectiveAt - 1)
             /\ copyLog = <<>>
        ELSE /\ ~inCopy
             /\ Len(copyLog) = 1
             /\ copyLog[1].table = "t"
             /\ copyLog[1].data = scenario.rawRows

\* The rows a block has made visible: if it committed, its rows that fit the
\* table and that the store did not reject, in order; otherwise none.
RowsOfBlock(block) ==
    IF ~block.ok THEN <<>>
    ELSE Let(SortedSeq({i \in 1..Len(block.data) :
                           /\ Len(Split(block.data[i], "\t")) = Len(scenario.good[1].cols)
                           /\ i \notin block.rejected}), LAMBDA kept :
             [i \in 1..Len(kept) |->
                 [table |-> block.table, vals |-> parseCopyLine(block.data[kept[i]])]])

RECURSIVE RowsOfBlocks(_)
RowsOfBlocks(blocks) ==
    IF Len(blocks) = 0 THEN <<>>
    ELSE RowsOfBlocks(SubSeq(blocks, 1, Len(blocks) - 1)) \o RowsOfBlock(blocks[Len(blocks)])

RECURSIVE DataOfBlocks(_)
DataOfBlocks(blocks) ==
    IF Len(blocks) = 0 THEN <<>>
    ELSE DataOfBlocks(SubSeq(blocks, 1, Len(blocks) - 1)) \o blocks[Len(blocks)].data

\* C22: each bulk-load block is a transaction of its own, applied in file order.
\* A block commits exactly when no call of its transaction fails, and then adds
\* every row whose insert succeeded (a rejected row is skipped, the others
\* stay); a block that does not commit adds no row.  The store holds the rows
\* of the committed blocks, so a failed block removes nothing an earlier block
\* committed, and every block of the dump is applied, whatever happened to
\* the blocks before it.
BlocksAreSerialTransactions ==
    scenario.kind = "blocks" =>
        /\ \A b \in 1..Len(copyLog) :
              copyLog[b].ok <=> (Len(copyLog[b].data) = 0 \/ copyLog[b].failAt = "none")
        /\ staging.rows = RowsOfBlocks(copyLog)
        /\ Len(copyLog) <= 2
        /\ DataOfBlocks(copyLog) = SubSeq(scenario.rawRows, 1, Len(DataOfBlocks(copyLog)))
        /\ Returned /\ fault = "none" =>
              Len(copyLog) = 2 /\ DataOfBlocks(copyLog) = scenario.rawRows

\* Two blocks were applied: the first committed two rows of which the store had
\* rejected none, the second inserted a row and failed at its commit, and the
\* store holds the rows of the first block only.
BlocksWitness ==
    /\ scenario.kind = "blocks"
    /\ Returned
    /\ fault = "none"
    /\ Len(copyLog) = 2
    /\ copyLog[1].ok
    /\ copyLog[1].data = <<"1\tx", "1\tx">>
    /\ copyLog[1].rejected = {}
    /\ copyLog[2].failAt = "commit"
    /\ copyLog[2].data = <<"2", "1\tx">>
    /\ copyLog[2].rejected = {}
    /\ Len(staging.rows) = 2

\* A comma directly before a closing parenthesis.
CommaBeforeClose(stmt) ==
    LET toks == SqlTokens(stmt)
    IN \E i \in 1..(Len(toks) - 1) : toks[i] = "," /\ toks[i + 1] = ")"

\* C23: when the last column definition of a table ended with a comma, on the
\* closing line or on the line before it, the statement executed has no comma
\* before its closing parenthesis, and the create-table flag is clear afterwards.
TrailingCommaRemoved ==
    scenario.kind = "comma" /\ Returned /\ fault = "none" =>
        /\ Len(execLog) = 1
        /\ ~CommaBeforeClose(execLog[1].stmt)
        /\ ~inCreateTable

\* C24: after a line that ends with a semicolon has been processed as part of a
\* statement, the pending statement is empty.
BufferEmptyAfterTerminator ==
    lastConv.line # "" /\ HasSuffix(lastConv.line, ";") => currentStatement = ""

\* C25: no line of a sequence statement or of an ownership statement is part of a
\* statement that is executed.
SequenceAndOwnershipNeverExecuted ==
    scenario.kind = "dropped" =>
        \A i \in 1..Len(scenario.rawRows) : \A j \in 1..Len(execLog) :
            ~Contains(execLog[j].stmt, scenario.rawRows[i])

\* C26: convertSyntax turns every ALTER statement that is not of one of the three
\* constraint shapes into the empty string.
OtherAlterStatementsDropped ==
    fnOut.done /\ fnIn.kind = "alter" => fnOut.text = ""

\* C27: an ALTER TABLE <t> ... ADD CONSTRAINT statement of one of the three
\* shapes, on one line or two, with or without ONLY, is executed as the index
\* creation on <t> it stands for, and as nothing else.
ConstraintBecomesIndexOnTable ==
    scenario.kind = "constraint" /\ Returned /\ fault = "none" =>
        /\ Len(execLog) = 1
        /\ TrimSpace(execLog[1].stmt) = scenario.rawRows[1]

\* The CSV records of the longest table of each shape: the records of a shorter
\* table are a prefix of them.
LongestTables ==
    {[columns |-> t.columns, records |-> CsvOf(t.columns, t.n)] :
        t \in {u \in ExportTables : \A w \in ExportTables : w.n <= u.n}}

\* The header and the first n rows of the table with these columns.
HeaderAndRows(columns, n) ==
    SubSeq((CHOOSE t \in LongestTables : t.columns = columns).records, 1, n + 1)

HeaderBeforeQuery ==
    /\ exp.pc \in {"Query", "Rows", "Final"} =>
          /\ exp.created
          /\ expFile.exists
          /\ (expFile.content \o exp.buffer)[1] = exp.columns
    /\ exp.pc = "Query" => expFile.content = <<>> /\ exp.buffer = <<exp.columns>>
    /\ exp.failed = "query" =>
          /\ exp.pc = "Returned"
          /\ expFile.exists
          /\ expFile.content \in {<<>>, <<exp.columns>>}

\* The SELECT is the step taken at Query: it is reached from Header only, it is
\* left by the step that issues the query, and rows are read only after it.
QueryStepOnce ==
    /\ exp'.pc = "Query" => exp.pc = "Header"
    /\ exp.pc = "Query" => exp'.pc \in {"Rows", "Returned"}
    /\ exp'.pc \in {"Rows", "Final"} => exp.pc \in {"Query", "Rows"}
    /\ exp'.pc = "Header" => exp.pc = "Create"
    /\ exp'.pc = "Create" => exp.pc = "Idle"

\* C29: Export creates or truncates the output file and writes the header
\* before it issues the SELECT, and issues the SELECT once; when the query
\* fails the file exists, what it held before is gone, and it has no data row.
QueryAfterHeaderOnce == []HeaderBeforeQuery /\ [][QueryStepOnce]_vars

\* The query failed on an output path that held the file of an earlier run:
\* the file holds the header and nothing else.
QueryFailedWitness ==
    /\ exp.failed = "query"
    /\ "previous" \in expFile.writers
    /\ expFile.content = <<exp.columns>>

\* C30: no export job's result is printed before every job has finished.
NoResultBeforeJoin ==
    \A t \in Selected :
        jobs[t].printed => \A u \in Selected : jobs[u].pc = "Done"

\* The errors a job of table t sends.
ColumnsError(t) == "error getting columns for table " \o t

ExportError(t) == "error exporting table " \o t

\* How many of the errors of errs are among the elements of seq.
Count(seq, errs) == Cardinality({i \in 1..Len(seq) : seq[i] \in errs})

\* C31: a job invokes the exporter only with the columns it has resolved; a job
\* whose column lookup failed never invokes the exporter, the output file of
\* its table is neither created nor truncated, and its error is reported
\* once: it is in the channel or printed once the job has ended, and printed
\* exactly once when main has drained the channel.
ColumnsResolvedBeforeExport ==
    \A t \in Selected :
        /\ jobs[t].exp.pc # "Idle" =>
              /\ jobs[t].exp.columns = TableNamed(t).columns
              /\ jobs[t].err # ColumnsError(t)
        /\ jobs[t].err = ColumnsError(t) =>
              /\ jobs[t].exp.pc = "Idle"
              /\ fs[FilepathJoin(OutputDir, OutputFile(t))] = NoFile
              /\ Count(errChan.buf \o errLog, {ColumnsError(t), ExportError(t)})
                    = (IF jobs[t].pc = "Done" THEN 1 ELSE 0)
              /\ mainPc = "Done" => Count(errLog, {ColumnsError(t)}) = 1

\* main has ended; the column lookup of one table failed and its error was
\* printed, its file does not exist, and another table was exported.
ColumnsFailedWitness ==
    /\ mainPc = "Done"
    /\ \E t1, t2 \in Selected :
          /\ jobs[t1].err = ColumnsError(t1)
          /\ errLog = <<ColumnsError(t1)>>
          /\ ~fs[FilepathJoin(OutputDir, OutputFile(t1))].exists
          /\ jobs[t2].printed
          /\ fs[FilepathJoin(OutputDir, OutputFile(t2))].exists

\* The channel has room for one error per selected table, each job sends at
\* most one, a job that is about to send finds room and an open channel, and
\* the channel is closed only when every job has ended.
ErrorChannelSafe ==
    /\ mainPc \in {"Spawn", "Wait", "Drain", "Done"} => errChan.cap = Len(selectedTables)
    /\ Len(errChan.buf) <= errChan.cap
    /\ \A t \in Selected :
          /\ Count(errChan.buf \o errLog, {ColumnsError(t), ExportError(t)}) <= 1
          /\ jobs[t].pc = "Send" => Len(errChan.buf) < errChan.cap /\ ~errChan.closed
    /\ errChan.closed => \A t \in Selected : jobs[t].pc = "Done"

\* C33: reporting errors cannot deadlock or panic: no send blocks or meets a
\* closed channel, and once the jobs are started main gets past the wait and
\* ends.
ErrorReportingTerminates ==
    []ErrorChannelSafe /\ ((mainPc = "Spawn") ~> (mainPc = "Done"))

\* Every job of several has sent its error: the channel is full, and main is
\* at the wait.
ChannelFullWitness ==
    /\ mainPc = "Wait"
    /\ Len(selectedTables) > 1
    /\ Len(errChan.buf) = Len(selectedTables)
    /\ Len(errChan.buf) = errChan.cap
    /\ \A t \in Selected : jobs[t].pc = "Done"

\* The process has ended.
Exited == run.pc = "Exited"

\* C32: however the process ends, the staging store a transpile produced has
\* been released: its file is gone, and it went after the connection was
\* closed.
StagingStoreReleased ==
    /\ Exited /\ run.temp # "" => run.temp \notin run.disk /\ ~run.open
    /\ run.temp # "" /\ run.temp \notin run.disk => ~run.open

\* C37: the program deletes no database file of the user.
UserFilesNeverDeleted ==
    \A f \in UserFiles : f \in run.disk

\* C34: once the line that ends a table definition with its semicolon has been
\* processed, whatever stands between the closing parenthesis and the
\* semicolon, the create-table flag is clear, and every line after the
\* definition goes through convertSyntax.
CreateTableModeEndsWithStatement ==
    scenario.kind = "options" /\ parsePc = "Scan" /\ pos > Len(scenario.rawRows) =>
        /\ lastConv.line = scenario.lines[pos - 1]
        /\ HasSuffix(lastConv.line, ";") => ~inCreateTable
        /\ pos > Len(scenario.rawRows) + 1 => lastConv.syntaxed

RECURSIVE Commas(_)
\* The number of commas in the lines.
Commas(lines) ==
    IF Len(lines) = 0 THEN 0
    ELSE Cardinality(Occurrences(Head(lines), ",")) + Commas(Tail(lines))

\* C35: a table definition that has no trailing comma is executed with all of
\* its commas.
CommasIntact ==
    scenario.kind = "intact" /\ Returned /\ fault = "none" =>
        /\ Len(execLog) = 1
        /\ Cardinality(Occurrences(execLog[1].stmt, ",")) = Commas(scenario.rawRows)

\* C36: at the end of the dump a statement without its semicolon and a
\* bulk-load block without its terminator are dropped: nothing of them is
\* executed or inserted, and ParseToSQLite returns the staging path and no
\* error.
UnterminatedInputDiscarded ==
    scenario.kind = "unterminated" /\ Returned /\ fault = "none" =>
        /\ retErr = ""
        /\ retPath = TempPath
        /\ Len(execLog) = 1
        /\ execLog[1].stmt = "CREATE TABLE b (id INT); "
        /\ copyLog = <<>>
        /\ staging = [tables |-> scenario.good, rows |-> <<>>]

\* ParseToSQLite has returned from a dump that ends inside a table definition
\* and inside a bulk-load block that has a row.
UnterminatedWitness ==
    /\ scenario.kind = "unterminated"
    /\ Returned
    /\ fault = "none"
    /\ currentStatement # ""
    /\ inCopy
    /\ copyData = <<"7">>
    /\ retPath = TempPath

=============================================================================
